---- MODULE Spec2Model ----
(***************************************************************************)
(* Logistics Dispatch Dashboard (src/src/App.js).                          *)
(*                                                                         *)
(* The model has two parts.                                                *)
(*                                                                         *)
(* 1. The pure functions calculateDriverScore, calculateVehicleScore,      *)
(*    calculateFuelCost and the ranking of handleSubmit, as operators, and *)
(*    small harnesses that invoke them on inputs drawn in their initial    *)
(*    states and record the results.                                       *)
(*                                                                         *)
(* 2. The React application as a state machine.  Every browser tab is a    *)
(*    session; each session holds the useState cells of the components     *)
(*    that are mounted in it (Dashboard, TripPlanningFlow, TripSuggestions,*)
(*    DriverSuggestions, VehicleSuggestions, TripsOverview).  A session is *)
(*    signed in as a user or as none (userId); the sessions of one user    *)
(*    share that user's Firestore trips collection (store, docUser).       *)
(*    A step is one event handler or callback run to                       *)
(*    completion, followed by React's re-render (Reconcile), which mounts  *)
(*    and unmounts components and runs the TripPlanningFlow effect.  The   *)
(*    async functions updateTripStatus and saveTripToFirestore take two    *)
(*    steps: up to their await of the store's updateDoc or setDoc, and     *)
(*    from there on when the write has settled; the lists of the overviews *)
(*    change with the snapshots delivered after it.                        *)
(*                                                                         *)
(* Numbers.  JavaScript numbers that may be fractional are held in fixed   *)
(* point: scorer inputs in tenths (performanceRating 4.5 is 45), scores in *)
(* hundredths (74.00 is 7400), which is exactly what toFixed(2) keeps.     *)
(* The numbers of calculateFuelCost are binary64 values: a significand of  *)
(* 53 binary digits and an exponent, rounded to nearest, ties to even.     *)
(***************************************************************************)
EXTENDS Integers, Sequences, FiniteSets, TLC

VARIABLES
  store,               \* Firestore: the trips documents, doc id -> data
  docUser,             \* Firestore: the <userId> in the path
                       \*   artifacts/<appId>/users/<userId>/trips/<id> of each document
  userId,              \* per session: FirebaseProvider's userId, the uid signed in
                       \*   or NoUser
  clock,               \* the wall clock read by new Date() / Date.now()
  dashboard,           \* per session: Dashboard's role, currentView, tripToView, toast,
                       \*   appSettings
  planning,            \* per session: TripPlanningFlow's state, or Unmounted
  tripSuggestions,     \* per session: TripSuggestions' state, or Unmounted
  driverSuggestions,   \* per session: DriverSuggestions' selectedDriverId, or Unmounted
  vehicleSuggestions,  \* per session: VehicleSuggestions' selectedVehicleId, or Unmounted
  tripsOverview,       \* per session: TripsOverview's trips, filter, loading, error, or
                       \*   Unmounted
  settingsPanel,       \* per session: SettingsPanel's four fields, or Unmounted
  pendingWrite,        \* per session: the updateDoc and setDoc calls that were issued
                       \*   and have not settled yet, oldest first
  event,               \* the store request the last step made (NoEvent if it made none)
  scoreArgs,           \* scoring harness: the arguments of calculateDriverScore
  scoreOut             \* scoring harness: the results of its invocations so far

vars == << store, docUser, userId, clock, dashboard, planning, tripSuggestions, driverSuggestions,
           vehicleSuggestions, tripsOverview, settingsPanel, pendingWrite, event, scoreArgs,
           scoreOut >>

appVars == << store, docUser, userId, clock, dashboard, planning, tripSuggestions, driverSuggestions,
              vehicleSuggestions, tripsOverview, settingsPanel, pendingWrite, event >>

scoreVars == << scoreArgs, scoreOut >>

-----------------------------------------------------------------------------
(* Bounds of the model.                                                    *)

\* Documents the trips collection may hold (doc ids are 1..MaxTrips).
MaxTrips == 2

\* Readings of the wall clock that the run may take (timestamps 1..MaxClock).
MaxClock == 2

\* Writes that may be in flight at a time, over all sessions.
MaxPending == 2

\* Largest hoursWorked, in tenths of an hour, drawn for the scoring harness.
MaxHoursTenths == 120

\* Invocations of the scorer the harness makes on the same arguments.
MaxInvocations == 2

\* Largest fuelEfficiency, in tenths of a km/L, drawn for the scoring harness.
MaxFuelEfficiencyTenths == 200

\* Longest list of driver or vehicle candidates drawn for the ranking harness.
MaxCandidates == 3

-----------------------------------------------------------------------------
(* JavaScript values.                                                      *)

\* The value of a missing property.
Undefined == "undefined"

\* React state holding null.
Null == [isNull |-> TRUE]

\* Whether obj has the property key.
Has(obj, key) == key \in DOMAIN obj

\* obj.key, Undefined when obj has no such property.
Get(obj, key) == IF key \in DOMAIN obj THEN obj[key] ELSE Undefined

\* { ...base, ...over }: the properties of over replace or extend those of base.
Spread(base, over) == over @@ base

Min(a, b) == IF a < b THEN a ELSE b

Max(a, b) == IF a > b THEN a ELSE b

\* Values of an argument or field that holds a number at one time and a string at
\* another: a number, a string (its characters in order), undefined, NaN.
JsNumber(n) == [number |-> n]
JsString(chars) == [chars |-> chars]
JsUndefined == [isUndefined |-> TRUE]
NaN == [isNaN |-> TRUE]
JsBoolean(b) == [boolean |-> b]
IsNumber(v) == "number" \in DOMAIN v
IsString(v) == "chars" \in DOMAIN v

\* The outcome of a call that ends in `throw`: the error's name.
Throws(error) == [throws |-> error]
HasThrown(outcome) == "throws" \in DOMAIN outcome

-----------------------------------------------------------------------------
(* Scoring.  Inputs in tenths, results in hundredths.  The three           *)
(* components of the driver score are carried over the common denominator  *)
(* 3 (units of 1/300), so that (1 - hours/9) * 30 stays exact.             *)

\* (performanceRating / 5) * 40, in 1/300.
performanceComponent(performanceRating) == 240 * performanceRating

\* Faulty variant of clampedHoursWorked: the hours are taken as given.
unclampedHoursWorked(hoursWorked) == hoursWorked

\* Math.min(hoursWorked, 9), in tenths.
clampedHoursWorked(hoursWorked) == Min(hoursWorked, 90)

\* (1 - clampedHoursWorked / 9) * 30, in 1/300.
hoursComponent(hoursWorked) == 9000 - 100 * clampedHoursWorked(hoursWorked)

\* (proximityScore / 100) * 30, in 1/300.
proximityComponent(proximityScore) == 9 * proximityScore

\* Math.max(0, Math.min(100, score)) for a score in 1/(100*den).
ClampScore(score, den) == Max(0, Min(100 * 100 * den, score))

\* parseFloat(score.toFixed(2)) for a score >= 0 in 1/(100*den): the nearest hundredth.
ToFixed2(score, den) == (2 * score + den) \div (2 * den)

\* Faulty variant of calculateDriverScore: the weighted sum with neither the cap
\* on hoursWorked nor the final clamp.
weightedDriverScore(performanceRating, hoursWorked, proximityScore) ==
  ToFixed2(performanceComponent(performanceRating)
           + (9000 - 100 * hoursWorked)
           + proximityComponent(proximityScore), 3)

\* Faulty variant of calculateDriverScore: the third decimal is cut off instead
\* of rounded.
truncatedDriverScore(performanceRating, hoursWorked, proximityScore) ==
  ClampScore(performanceComponent(performanceRating)
             + hoursComponent(hoursWorked)
             + proximityComponent(proximityScore), 3) \div 3

\* Faulty variant of calculateDriverScore: driverScore is declared outside the
\* function and is not reset, so that an invocation adds its weighted sum to
\* what the invocations recorded in scoreOut have left.
keptDriverScore(performanceRating, hoursWorked, proximityScore) ==
  ToFixed2(ClampScore((Len(scoreOut) + 1)
                         * (performanceComponent(performanceRating)
                            + hoursComponent(hoursWorked)
                            + proximityComponent(proximityScore)), 3), 3)

calculateDriverScore(performanceRating, hoursWorked, proximityScore) ==
  LET driverScore == performanceComponent(performanceRating)
                     + hoursComponent(hoursWorked)
                     + proximityComponent(proximityScore)
  IN  ToFixed2(ClampScore(driverScore, 3), 3)

\* Faulty variant of maintenancePenalty: the middle status is misspelled.
maintenancePenaltyMisspelled(maintenanceStatus) ==
  IF maintenanceStatus = "Poor" THEN 30
  ELSE IF maintenanceStatus = "NeedsCheck" THEN 15
  ELSE 0

\* The maintenance penalty, in points.
maintenancePenalty(maintenanceStatus) ==
  IF maintenanceStatus = "Poor" THEN 30
  ELSE IF maintenanceStatus = "Needs Check" THEN 15
  ELSE 0

calculateVehicleScore(fuelEfficiency, utilizationScore, maintenanceStatus) ==
  LET vehicleScore == 50 * fuelEfficiency + 10 * utilizationScore
                      - 100 * maintenancePenalty(maintenanceStatus)
  IN  ToFixed2(ClampScore(vehicleScore, 1), 1)

-----------------------------------------------------------------------------
(* Sessions, roles, documents.                                             *)

\* The browser tabs that run the application.
Sessions == {"A", "B"}

\* The uids that sign in.
Users == {"user1", "user2"}

\* FirebaseProvider's userId while no user is signed in: null.
NoUser == "null"

\* The tab in which the operator plans, navigates and switches role; the other
\* tab is a dispatcher's second tab, left on the trips overview.
Planners == {"A"}

Roles == {"dispatcher", "admin", "viewer"}

\* The ids doc(tripsCollectionRef) hands out.
TripIds == 1 .. MaxTrips

\* A component that is not rendered holds no state.
Unmounted == [mounted |-> FALSE]

\* No store request was made by the last step.
NoEvent == [op |-> "none"]

\* role === 'dispatcher' || role === 'admin' (TripPlanningFlow).
canEditTrips(role) == role \in {"dispatcher", "admin"}

\* Faulty variant of canModifyTrips: every role may modify trips.
canModifyTripsAnyRole(role) == role \in {"dispatcher", "admin", "viewer"}

\* role === 'dispatcher' || role === 'admin' (TripsOverview).
canModifyTrips(role) == role \in {"dispatcher", "admin"}

\* Faulty variant of isEditable: the summary is editable under every role.
isEditableAnyRole(role) == role \in {"dispatcher", "admin", "viewer"}

\* role === 'dispatcher' || role === 'admin' (TripSummaryDashboard).
isEditable(role) == role \in {"dispatcher", "admin"}

-----------------------------------------------------------------------------
(* The planning request: candidates, ranking, routes.                      *)

\* What the operator types into the planning form before pressing Plan Trip.
FormInputs ==
  { [origin |-> "Delhi", destination |-> "Mumbai", loadWeight |-> "500",
     loadVolume |-> "10", deliveryTimeSlot |-> "2025-01-01T10:00",
     routePreference |-> "fastest"],
    [origin |-> "Mumbai", destination |-> "Pune", loadWeight |-> "900",
     loadVolume |-> "20", deliveryTimeSlot |-> "2025-02-02T16:30",
     routePreference |-> "cheapest"] }

\* The one form typed in the runs that follow trips through their lifecycle.
RoutineForms == {f \in FormInputs : f.origin = "Delhi"}

mockDrivers ==
  << [id |-> "driver1", name |-> "Alice Smith", location |-> "Downtown",
      hoursWorked |-> 6, performanceRating |-> 5, proximityScore |-> 80],
     [id |-> "driver2", name |-> "Bob Johnson", location |-> "Northside",
      hoursWorked |-> 9, performanceRating |-> 4, proximityScore |-> 50],
     [id |-> "driver3", name |-> "Charlie Brown", location |-> "Southside",
      hoursWorked |-> 4, performanceRating |-> 3, proximityScore |-> 90] >>

mockVehicles ==
  << [id |-> "vehicle1", type |-> "Van", capacity |-> "1000 kg / 8 m3",
      fuelEfficiency |-> 12, maintenanceStatus |-> "Good", utilizationScore |-> 75],
     [id |-> "vehicle2", type |-> "Truck (Small)", capacity |-> "3000 kg / 20 m3",
      fuelEfficiency |-> 8, maintenanceStatus |-> "Needs Check", utilizationScore |-> 50],
     [id |-> "vehicle3", type |-> "Truck (Large)", capacity |-> "10000 kg / 60 m3",
      fuelEfficiency |-> 5, maintenanceStatus |-> "Poor", utilizationScore |-> 90] >>

\* Faulty variant of InsertDesc: an entry is put before the entries of equal key.
RECURSIVE InsertDescBeforeEqual(_, _, _)
InsertDescBeforeEqual(sorted, x, key) ==
  IF sorted = << >> THEN << x >>
  ELSE IF Head(sorted)[key] > x[key]
       THEN << Head(sorted) >> \o InsertDescBeforeEqual(Tail(sorted), x, key)
       ELSE << x >> \o sorted

\* Array.prototype.sort((a, b) => b[key] - a[key]): descending, stable.
RECURSIVE InsertDesc(_, _, _)
InsertDesc(sorted, x, key) ==
  IF sorted = << >> THEN << x >>
  ELSE IF Head(sorted)[key] >= x[key]
       THEN << Head(sorted) >> \o InsertDesc(Tail(sorted), x, key)
       ELSE << x >> \o sorted

\* Faulty variant of SortDesc: the list is left in its input order.
Unsorted(list, key) == list

RECURSIVE SortDesc(_, _)
SortDesc(list, key) ==
  IF list = << >> THEN << >>
  ELSE InsertDesc(SortDesc(SubSeq(list, 1, Len(list) - 1), key), list[Len(list)], key)

\* drivers.map(driver => ({...driver, driverScore})).sort(...) for a candidate list.
scoreDrivers(drivers) ==
  SortDesc([i \in DOMAIN drivers |->
              Spread(drivers[i],
                     [driverScore |-> calculateDriverScore(
                        10 * drivers[i].performanceRating,
                        10 * drivers[i].hoursWorked,
                        10 * drivers[i].proximityScore)])],
           "driverScore")

\* vehicles.map(vehicle => ({...vehicle, vehicleScore})).sort(...) for a candidate list.
scoreVehicles(vehicles) ==
  SortDesc([i \in DOMAIN vehicles |->
              Spread(vehicles[i],
                     [vehicleScore |-> calculateVehicleScore(
                        10 * vehicles[i].fuelEfficiency,
                        10 * vehicles[i].utilizationScore,
                        vehicles[i].maintenanceStatus)])],
           "vehicleScore")

\* scored[0]?.id: the id of the first entry, undefined for an empty list.
recommendedId(scored) == IF scored = << >> THEN Undefined ELSE scored[1].id

\* mockDrivers.map(driver => ({...driver, driverScore})).sort(...)
scoredDrivers == scoreDrivers(mockDrivers)

\* mockVehicles.map(vehicle => ({...vehicle, vehicleScore})).sort(...)
scoredVehicles == scoreVehicles(mockVehicles)

\* The route offered as optimal for the submitted form.
optimalRoute(tripData) ==
  [origin |-> tripData.origin, destination |-> tripData.destination,
   eta |-> "4h 30m", distance |-> "350 km", cost |-> "$120.00", riskRating |-> "Low"]

alternateRoutes ==
  << [name |-> "Scenic Route", eta |-> "5h 15m", distance |-> "380 km", cost |-> "$110.00"],
     [name |-> "Highway Bypass", eta |-> "4h 45m", distance |-> "360 km", cost |-> "$135.00"] >>

\* The suggestions handleSubmit builds from the submitted form.
mockSuggestions(tripData) ==
  [origin |-> tripData.origin,
   destination |-> tripData.destination,
   deliveryTimeSlot |-> tripData.deliveryTimeSlot,
   optimalRoute |-> optimalRoute(tripData),
   alternateRoutes |-> alternateRoutes,
   drivers |-> scoredDrivers,
   recommendedDriverId |-> recommendedId(scoredDrivers),
   vehicles |-> scoredVehicles,
   recommendedVehicleId |-> recommendedId(scoredVehicles)]

\* list.find(x => x.id === id)
Find(list, id) ==
  IF \E i \in DOMAIN list : list[i].id = id
  THEN list[CHOOSE i \in DOMAIN list : list[i].id = id /\ \A j \in 1 .. (i - 1) : list[j].id # id]
  ELSE Undefined

\* [optimalRoute, ...alternateRoutes][selectedRouteIndex], index from 0.
RouteAt(suggestions, selectedRouteIndex) ==
  (<< suggestions.optimalRoute >> \o suggestions.alternateRoutes)[selectedRouteIndex + 1]

\* The indices of the route cards TripSuggestions renders.
RouteIndices == 0 .. Len(alternateRoutes)

\* The outcomes of Math.random() > 0.7 ? 'delayed' : 'on-time'.
DeliveryStatuses == {"delayed", "on-time"}

\* The outcome drawn in the runs that follow trips through their lifecycle.
RoutineDeliveryStatuses == {"on-time"}

\* Math.random() * 8 hours, in clock readings.
DeliveryDelays == {1}

-----------------------------------------------------------------------------
(* Component state and rendering.                                          *)

\* Dashboard's useState initial values.
\* appSettings' useState initial value; the price 96.72 is in hundredths.
InitialAppSettings ==
  [defaultRoutePreference |-> "fastest",
   maxDrivingHours |-> JsNumber(10),
   fuelPricesByState |-> << [id |-> 1, state |-> "Delhi", price |-> JsNumber(9672)] >>,
   enableAIRecommendations |-> TRUE]

DashboardInit ==
  [currentView |-> "planning", tripToView |-> Null, toast |-> Null, role |-> "dispatcher",
   appSettings |-> InitialAppSettings]

\* SettingsPanel's useState initial values for the prop initialSettings.
SettingsPanelInit(initialSettings) ==
  [defaultRoutePreference |-> initialSettings.defaultRoutePreference,
   maxDrivingHours |-> initialSettings.maxDrivingHours,
   fuelPricesByState |-> initialSettings.fuelPricesByState,
   enableAIRecommendations |-> initialSettings.enableAIRecommendations]

\* value || fallback for a string property.
OrElse(value, fallback) == IF value = Undefined \/ value = "" THEN fallback ELSE value

\* TripPlanningFlow's useState initial values for the prop initialTripDetails.
PlanningInit(initialTripDetails) ==
  IF initialTripDetails # Null
  THEN [origin |-> OrElse(Get(initialTripDetails.route, "origin"), ""),
        destination |-> OrElse(Get(initialTripDetails.route, "destination"), ""),
        loadWeight |-> OrElse(Get(initialTripDetails, "loadWeight"), ""),
        loadVolume |-> OrElse(Get(initialTripDetails, "loadVolume"), ""),
        deliveryTimeSlot |-> OrElse(Get(initialTripDetails.route, "deliveryTimeSlot"), ""),
        routePreference |-> OrElse(Get(initialTripDetails.route, "routePreference"), "fastest"),
        suggestions |-> Null,
        confirmedTrip |-> initialTripDetails,
        currentPhase |-> "summary"]
  ELSE [origin |-> "", destination |-> "", loadWeight |-> "", loadVolume |-> "",
        deliveryTimeSlot |-> "", routePreference |-> "fastest",
        suggestions |-> Null, confirmedTrip |-> Null, currentPhase |-> "form"]

\* TripPlanningFlow's effect on [initialTripDetails], run on state p.
InitialTripDetailsEffect(p, initialTripDetails) ==
  IF initialTripDetails # Null
  THEN [PlanningInit(initialTripDetails) EXCEPT !.suggestions = p.suggestions]
  ELSE PlanningInit(Null)

\* TripSuggestions' useState initial values.
TripSuggestionsInit ==
  [selectedDriver |-> Null, selectedVehicle |-> Null, selectedRouteIndex |-> 0]

\* TripsOverview's useState initial values.
TripsOverviewInit == [trips |-> << >>, filter |-> "all", loading |-> TRUE, error |-> Null]

\* TripPlanningFlow renders <TripSuggestions>: it is past the Access Denied
\* return, in phase 'suggestions', with suggestions set.
ShowsTripSuggestions(role, p) ==
  /\ p # Unmounted
  /\ canEditTrips(role) \/ p.currentPhase = "summary"
  /\ p.currentPhase = "suggestions"
  /\ p.suggestions # Null

\* TripPlanningFlow renders the planning form.
ShowsForm(role, p) ==
  /\ p # Unmounted
  /\ canEditTrips(role) \/ p.currentPhase = "summary"
  /\ p.currentPhase = "form"

\* TripPlanningFlow renders <TripSummaryDashboard>.
ShowsSummary(role, p) ==
  /\ p # Unmounted
  /\ canEditTrips(role) \/ p.currentPhase = "summary"
  /\ p.currentPhase = "summary"
  /\ p.confirmedTrip # Null

\* React's re-render of session s after a step left it with the userId uid,
\* Dashboard state d, TripPlanningFlow state p, TripSuggestions state ts,
\* DriverSuggestions state ds, VehicleSuggestions state vs and TripsOverview state
\* ov: components that are no longer rendered lose their state, newly rendered
\* ones start from their initial state, and TripPlanningFlow's effect runs when
\* its prop initialTripDetails changed.  Dashboard renders the role selector, the
\* navigation and the view under `userId &&`: without a user none of
\* TripPlanningFlow, TripsOverview and SettingsPanel is rendered, while
\* Dashboard's own state stays.
ReconcileAs(s, uid, d, p, ts, ds, vs, ov) ==
  LET p1  == IF uid = NoUser \/ d.currentView # "planning" THEN Unmounted
             ELSE IF p = Unmounted THEN PlanningInit(d.tripToView)
             ELSE IF d.tripToView # dashboard[s].tripToView
                  THEN InitialTripDetailsEffect(p, d.tripToView)
                  ELSE p
      ts1 == IF ~ShowsTripSuggestions(d.role, p1) THEN Unmounted
             ELSE IF ts = Unmounted THEN TripSuggestionsInit
             ELSE ts
      ds1 == IF ts1 = Unmounted \/ ts1.selectedDriver # Null THEN Unmounted
             ELSE IF ds = Unmounted
                  THEN [selectedDriverId |-> p1.suggestions.recommendedDriverId]
                  ELSE ds
      vs1 == IF ts1 = Unmounted \/ ts1.selectedDriver = Null \/ ts1.selectedVehicle # Null
             THEN Unmounted
             ELSE IF vs = Unmounted
                  THEN [selectedVehicleId |-> p1.suggestions.recommendedVehicleId]
                  ELSE vs
      ov1 == IF uid = NoUser \/ d.currentView # "overview" THEN Unmounted
             ELSE IF ov = Unmounted THEN TripsOverviewInit
             ELSE ov
      sp1 == IF uid = NoUser \/ d.currentView # "settings" \/ d.role # "admin"
             THEN Unmounted
             ELSE IF settingsPanel[s] = Unmounted THEN SettingsPanelInit(d.appSettings)
             ELSE settingsPanel[s]
  IN  /\ dashboard' = [dashboard EXCEPT ![s] = d]
      /\ planning' = [planning EXCEPT ![s] = p1]
      /\ tripSuggestions' = [tripSuggestions EXCEPT ![s] = ts1]
      /\ driverSuggestions' = [driverSuggestions EXCEPT ![s] = ds1]
      /\ vehicleSuggestions' = [vehicleSuggestions EXCEPT ![s] = vs1]
      /\ tripsOverview' = [tripsOverview EXCEPT ![s] = ov1]
      /\ settingsPanel' = [settingsPanel EXCEPT ![s] = sp1]

\* The re-render after a handler, which leaves the userId as it is.
Reconcile(s, d, p, ts, ds, vs, ov) ==
  ReconcileAs(s, userId[s], d, p, ts, ds, vs, ov)

\* A re-render after a handler that changed Dashboard state only.
RenderDashboard(s, d) ==
  Reconcile(s, d, planning[s], tripSuggestions[s], driverSuggestions[s],
            vehicleSuggestions[s], tripsOverview[s])

\* A re-render after a handler that changed TripPlanningFlow state only.
RenderPlanning(s, p) ==
  Reconcile(s, dashboard[s], p, tripSuggestions[s], driverSuggestions[s],
            vehicleSuggestions[s], tripsOverview[s])

\* A re-render after a handler that changed TripSuggestions state only.
RenderTripSuggestions(s, ts) ==
  Reconcile(s, dashboard[s], planning[s], ts, driverSuggestions[s],
            vehicleSuggestions[s], tripsOverview[s])

\* A step that makes no store request.
NoStoreRequest == /\ UNCHANGED << store, docUser, userId, clock, pendingWrite, scoreVars >>
                  /\ event' = NoEvent

-----------------------------------------------------------------------------
(* FirebaseProvider.                                                       *)

\* The callback of onAuthStateChanged in session s, called with the user of uid
\* `user` or with no user (NoUser): setUserId(user.uid), or setUserId(null) and
\* another signIn().  signIn() is also started when the page loads, so that two
\* anonymous sign-ins can be under way at once, and the callback is called for
\* each change they make: with one uid and later with another, or with no user
\* in between.  The components that read userId render again: without a user the
\* views are taken down; with another uid a TripsOverview that stays mounted
\* keeps its trips, loading and error, and its effect subscribes to the trips of
\* the new userId, whose first snapshot is a later step.
onAuthStateChanged(s, user) ==
  /\ user \in Users \cup {NoUser}
  /\ user # userId[s]
  /\ userId' = [userId EXCEPT ![s] = user]
  /\ ReconcileAs(s, user, dashboard[s], planning[s], tripSuggestions[s],
                 driverSuggestions[s], vehicleSuggestions[s], tripsOverview[s])
  /\ event' = NoEvent
  /\ UNCHANGED << store, docUser, clock, pendingWrite, scoreVars >>

-----------------------------------------------------------------------------
(* Dashboard.                                                              *)

\* A notification: its text as written in the source, and the value interpolated
\* into it ("" when none is).
Message(text, value) == [text |-> text, value |-> value]

\* setToast({ message, type })
Toast(message, type) == [message |-> message, type |-> type]

\* The prop onShowToast of TripsOverview and SettingsPanel is Dashboard's setToast,
\* and the components call it as onShowToast(message, type).  A state setter takes
\* one argument: the toast state becomes the message string, the type is dropped.
onShowToast(message, type) == message

\* The props <ToastMessage message={toast.message} type={toast.type}> is rendered
\* with: undefined both when the toast state is a string.
ToastMessageProps(toast) == [message |-> Get(toast, "message"), type |-> Get(toast, "type")]

\* ToastMessage's bgColor: green for type 'success', red for anything else.
bgColor(type) == IF type = "success" THEN "bg-green-500" ELSE "bg-red-500"

\* handleGoToOverview(message, type) on Dashboard state d; message Null when omitted.
handleGoToOverview(d, message, type) ==
  [d EXCEPT !.currentView = "overview",
            !.tripToView = Null,
            !.toast = IF message # Null THEN Toast(message, type) ELSE @]

\* Faulty variant of SetRole: the view is left as it is.
SetRoleKeepingView(s, r) ==
  /\ userId[s] # NoUser
  /\ r \in Roles
  /\ r # dashboard[s].role
  /\ RenderDashboard(s, [dashboard[s] EXCEPT !.role = r, !.tripToView = Null])
  /\ NoStoreRequest

\* The role selector's onChange; the selector is rendered for a signed-in user.
SetRole(s, r) ==
  /\ userId[s] # NoUser
  /\ r \in Roles
  /\ r # dashboard[s].role
  /\ RenderDashboard(s, [dashboard[s] EXCEPT !.role = r,
                                             !.currentView = "planning",
                                             !.tripToView = Null])
  /\ NoStoreRequest

\* The Plan New Trip button, rendered for a signed-in user.
ClickPlanNewTrip(s) ==
  /\ userId[s] # NoUser
  /\ dashboard[s].currentView # "planning" \/ dashboard[s].tripToView # Null
  /\ RenderDashboard(s, [dashboard[s] EXCEPT !.currentView = "planning",
                                             !.tripToView = Null])
  /\ NoStoreRequest

\* The Trips Overview button, rendered for a signed-in user.
ClickTripsOverview(s) ==
  /\ userId[s] # NoUser
  /\ dashboard[s].currentView # "overview" \/ dashboard[s].tripToView # Null
  /\ RenderDashboard(s, handleGoToOverview(dashboard[s], Null, Null))
  /\ NoStoreRequest

\* The Settings button, rendered for a signed-in user in the admin role.
ClickSettings(s) ==
  /\ userId[s] # NoUser
  /\ dashboard[s].role = "admin"
  /\ dashboard[s].currentView # "settings"
  /\ RenderDashboard(s, [dashboard[s] EXCEPT !.currentView = "settings"])
  /\ NoStoreRequest

\* ToastMessage's onClose (its 3 s timer or its close button); the toast is
\* rendered with or without a user.
CloseToast(s) ==
  /\ dashboard[s].toast # Null
  /\ RenderDashboard(s, [dashboard[s] EXCEPT !.toast = Null])
  /\ NoStoreRequest

-----------------------------------------------------------------------------
(* The trip store.                                                         *)

\* snapshot.docs.map(doc => ({ id: doc.id, ...doc.data() })) for docs 1..n.
RECURSIVE SnapshotDocs(_, _)
SnapshotDocs(st, n) ==
  IF n = 0 THEN << >>
  ELSE IF st[n] = Null THEN SnapshotDocs(st, n - 1)
       ELSE Append(SnapshotDocs(st, n - 1), Spread([id |-> n], st[n]))

\* The trips an onSnapshot callback receives for the collection st.
fetchedTrips(st) == SnapshotDocs(st, MaxTrips)

\* collection(db, `artifacts/${firebaseConfig.appId}/users/${userId}/trips`) for
\* userId uid: the documents of st under that path.
tripsCollection(st, uid) ==
  [i \in TripIds |-> IF docUser[i] = uid THEN st[i] ELSE Null]

\* The ids doc(tripsCollectionRef) has given to documents whose setDoc is in flight.
PendingIds ==
  {id \in TripIds :
     \E s \in Sessions : \E i \in DOMAIN pendingWrite[s] :
        /\ pendingWrite[s][i].op = "saveTripToFirestore"
        /\ pendingWrite[s][i].kind = "create"
        /\ pendingWrite[s][i].tripId = id}

\* The number of writes in flight from the sessions of S.
RECURSIVE InFlightOf(_)
InFlightOf(S) ==
  IF S = {} THEN 0
  ELSE LET s == CHOOSE x \in S : TRUE
       IN  Len(pendingWrite[s]) + InFlightOf(S \ {s})

\* The number of writes in flight.
InFlight == InFlightOf(Sessions)

\* The document ids not yet in use.
FreeIds == {i \in TripIds : store[i] = Null /\ i \notin PendingIds}

\* Faulty variant of updateDoc: a write to a trip whose stored status is final is
\* dropped (the first final write wins).
updateDocUnlessFinal(st, id, fields) ==
  IF st[id].status \in {"Completed", "Cancelled"} THEN st
  ELSE [st EXCEPT ![id] = Spread(@, fields)]

\* updateDoc(doc(db, path, id), fields): the fields given replace or extend the document's.
updateDoc(st, id, fields) == [st EXCEPT ![id] = Spread(@, fields)]

\* setDoc(doc(collectionRef), data): a new document under a fresh id.
setDoc(st, id, data) == [st EXCEPT ![id] = data]

\* The trip with this id in a fetched list (Undefined when it is not there).
TripById(trips, id) == Find(trips, id)

\* Faulty variant of updatedTripFields: the driver and vehicle are taken anew from
\* the top of the re-scored pools.
updatedTripFieldsRescored(tripData, now) ==
  Spread(tripData, [updatedAt |-> now, driver |-> scoredDrivers[1],
                    vehicle |-> scoredVehicles[1]])

\* { ...tripData, updatedAt: new Date() }: what an existing trip is updated with.
updatedTripFields(tripData, now) == Spread(tripData, [updatedAt |-> now])

\* Faulty variant of newTripDocument: the status is left out.
newTripDocumentUnscheduled(tripData, now) == Spread(tripData, [createdAt |-> now])

\* { ...tripData, status: 'Scheduled', createdAt: new Date() }: a new trip's document.
newTripDocument(tripData, now) ==
  Spread(tripData, [status |-> "Scheduled", createdAt |-> now])

\* Faulty variant of statusUpdate: the update is stamped with the time as well.
statusUpdateStamped(newStatus) == [status |-> newStatus, updatedAt |-> clock]

\* { status: newStatus }: what updateTripStatus updates a trip with.
statusUpdate(newStatus) == [status |-> newStatus]

\* saveTripToFirestore(tripData) called in session s, up to its await.  Without a
\* userId it logs an error and returns.  Otherwise the document to write is built
\* and updateDoc or setDoc issued, on the path of the userId at the call: new
\* Date() is read and, for a new trip, doc(tripsCollectionRef) gives out the id,
\* here and not when the write settles.  The caller does not wait for it.
saveTripToFirestore(s, tripData) ==
  LET now == clock + 1
      kind == IF Has(tripData, "id") THEN "update" ELSE "create"
      id == IF Has(tripData, "id") THEN tripData.id
            ELSE CHOOSE i \in FreeIds : \A j \in FreeIds : i <= j
      fields == IF Has(tripData, "id") THEN updatedTripFields(tripData, now)
                ELSE newTripDocument(tripData, now)
  IN  IF userId[s] = NoUser
      THEN /\ event' = [op |-> "saveTripToFirestore", session |-> s,
                        outcome |-> "unavailable"]
           /\ UNCHANGED << store, docUser, userId, clock, pendingWrite >>
      ELSE /\ pendingWrite' = [pendingWrite EXCEPT ![s] =
                                 Append(@, [op |-> "saveTripToFirestore", kind |-> kind,
                                            tripId |-> id, userId |-> userId[s],
                                            at |-> now,
                                            tripData |-> tripData, fields |-> fields])]
           /\ clock' = now
           /\ event' = [op |-> "saveTripToFirestore", session |-> s, kind |-> kind,
                        tripId |-> id, tripData |-> tripData, at |-> now,
                        outcome |-> "requested"]
           /\ UNCHANGED << store, docUser, userId >>

\* saveTripToFirestore from its await on, in session s: the oldest write in flight,
\* one of saveTripToFirestore, settles (the store applies a client's writes in the
\* order they were issued); ok: the store accepts the write (it rejects an update
\* of a path that holds no such document).  The function logs the outcome and
\* returns: no component state changes.
saveTripToFirestoreSettles(s, ok) ==
  LET w == Head(pendingWrite[s])
      written == ok /\ (w.kind = "update"
                           => tripsCollection(store, w.userId)[w.tripId] # Null)
  IN  /\ pendingWrite[s] # << >>
      /\ w.op = "saveTripToFirestore"
      /\ store' = IF ~written THEN store
                  ELSE IF w.kind = "update" THEN updateDoc(store, w.tripId, w.fields)
                  ELSE setDoc(store, w.tripId, w.fields)
      /\ docUser' = IF written /\ w.kind = "create"
                    THEN [docUser EXCEPT ![w.tripId] = w.userId]
                    ELSE docUser
      /\ pendingWrite' = [pendingWrite EXCEPT ![s] = Tail(@)]
      /\ event' = [op |-> "saveTripToFirestore", session |-> s, kind |-> w.kind,
                   tripId |-> w.tripId, tripData |-> w.tripData, at |-> w.at,
                   outcome |-> IF written THEN "written" ELSE "failed"]
      /\ UNCHANGED << userId, clock, dashboard, planning, tripSuggestions,
                      driverSuggestions, vehicleSuggestions, tripsOverview,
                      settingsPanel, scoreVars >>

-----------------------------------------------------------------------------
(* TripPlanningFlow and TripSuggestions.                                   *)

\* parseFloat on the text of a number field of the form.
parseFloat(text) ==
  CASE text = "10" -> 10
    [] text = "20" -> 20
    [] text = "500" -> 500
    [] text = "900" -> 900
    [] OTHER -> "NaN"

\* The fields of the planning form, in the order of the page.
FormFields ==
  << "origin", "destination", "loadWeight", "loadVolume", "deliveryTimeSlot",
     "routePreference" >>

\* The onChange of a field of the planning form: setOrigin, setDestination,
\* setLoadWeight, setLoadVolume, setDeliveryTimeSlot or setRoutePreference with
\* e.target.value.
setFormField(s, field, value) ==
  /\ ShowsForm(dashboard[s].role, planning[s])
  /\ \E i \in DOMAIN FormFields : FormFields[i] = field
  /\ planning[s][field] # value
  /\ RenderPlanning(s, [planning[s] EXCEPT ![field] = value])
  /\ NoStoreRequest

\* The tripData handleSubmit builds from the fields of TripPlanningFlow state p.
SubmittedTripData(p) ==
  [origin |-> p.origin, destination |-> p.destination,
   loadWeight |-> parseFloat(p.loadWeight),
   loadVolume |-> parseFloat(p.loadVolume),
   deliveryTimeSlot |-> p.deliveryTimeSlot,
   routePreference |-> p.routePreference]

\* A variant of handleSubmit that leaves out the drivers who have worked more
\* than the maxDrivingHours of the settings.
handleSubmitWithinMaxDrivingHours(s) ==
  LET d == dashboard[s]
      p == planning[s]
      rested == scoreDrivers(SelectSeq(mockDrivers,
                  LAMBDA driver : \/ d.appSettings.maxDrivingHours = NaN
                                  \/ driver.hoursWorked
                                        <= d.appSettings.maxDrivingHours.number))
  IN  /\ ShowsForm(d.role, p)
      /\ IF ~canEditTrips(d.role)
         THEN RenderDashboard(s, handleGoToOverview(d,
                             Message("You do not have permission to plan trips.", ""),
                             "error"))
         ELSE RenderPlanning(s, [p EXCEPT
                 !.suggestions = [mockSuggestions(SubmittedTripData(p)) EXCEPT
                                    !.drivers = rested,
                                    !.recommendedDriverId = recommendedId(rested)],
                 !.currentPhase = "suggestions"])
      /\ NoStoreRequest

\* Plan Trip: the form's onSubmit, handleSubmit, on the fields as they stand.
handleSubmit(s) ==
  LET d == dashboard[s]
      p == planning[s]
  IN  /\ ShowsForm(d.role, p)
      /\ IF ~canEditTrips(d.role)
         THEN RenderDashboard(s, handleGoToOverview(d,
                             Message("You do not have permission to plan trips.", ""),
                             "error"))
         ELSE RenderPlanning(s, [p EXCEPT
                 !.suggestions = mockSuggestions(SubmittedTripData(p)),
                 !.currentPhase = "suggestions"])
      /\ NoStoreRequest

\* A click on a route card: setSelectedRouteIndex(index).
SelectRoute(s, index) ==
  /\ tripSuggestions[s] # Unmounted
  /\ index \in RouteIndices
  /\ index # tripSuggestions[s].selectedRouteIndex
  /\ RenderTripSuggestions(s, [tripSuggestions[s] EXCEPT !.selectedRouteIndex = index])
  /\ NoStoreRequest

\* A click on a driver card or its Override button: setSelectedDriverId(id).
SelectDriver(s, driverId) ==
  /\ driverSuggestions[s] # Unmounted
  /\ \E i \in DOMAIN planning[s].suggestions.drivers :
        planning[s].suggestions.drivers[i].id = driverId
  /\ driverId # driverSuggestions[s].selectedDriverId
  /\ Reconcile(s, dashboard[s], planning[s], tripSuggestions[s],
               [selectedDriverId |-> driverId], vehicleSuggestions[s], tripsOverview[s])
  /\ NoStoreRequest

\* A variant of handleConfirmDriver that confirms the recommended driver whatever
\* is selected.
handleConfirmRecommendedDriver(s, driverId) ==
  /\ driverSuggestions[s] # Unmounted
  /\ driverId = driverSuggestions[s].selectedDriverId
  /\ RenderTripSuggestions(s,
       [tripSuggestions[s] EXCEPT
          !.selectedDriver = Find(planning[s].suggestions.drivers,
                                  planning[s].suggestions.recommendedDriverId)])
  /\ NoStoreRequest

\* Confirm Driver: handleConfirmDriver(selectedDriverId).
handleConfirmDriver(s, driverId) ==
  /\ driverSuggestions[s] # Unmounted
  /\ driverId = driverSuggestions[s].selectedDriverId
  /\ RenderTripSuggestions(s,
       [tripSuggestions[s] EXCEPT
          !.selectedDriver = Find(planning[s].suggestions.drivers, driverId)])
  /\ NoStoreRequest

\* Change on the selected driver: setSelectedDriver(null).
ChangeDriver(s) ==
  /\ tripSuggestions[s] # Unmounted
  /\ tripSuggestions[s].selectedDriver # Null
  /\ RenderTripSuggestions(s, [tripSuggestions[s] EXCEPT !.selectedDriver = Null])
  /\ NoStoreRequest

\* A click on a vehicle card or its Override button: setSelectedVehicleId(id).
SelectVehicle(s, vehicleId) ==
  /\ vehicleSuggestions[s] # Unmounted
  /\ \E i \in DOMAIN planning[s].suggestions.vehicles :
        planning[s].suggestions.vehicles[i].id = vehicleId
  /\ vehicleId # vehicleSuggestions[s].selectedVehicleId
  /\ Reconcile(s, dashboard[s], planning[s], tripSuggestions[s], driverSuggestions[s],
               [selectedVehicleId |-> vehicleId], tripsOverview[s])
  /\ NoStoreRequest

\* Confirm Vehicle: handleConfirmVehicle(selectedVehicleId).
handleConfirmVehicle(s, vehicleId) ==
  /\ vehicleSuggestions[s] # Unmounted
  /\ vehicleId = vehicleSuggestions[s].selectedVehicleId
  /\ RenderTripSuggestions(s,
       [tripSuggestions[s] EXCEPT
          !.selectedVehicle = Find(planning[s].suggestions.vehicles, vehicleId)])
  /\ NoStoreRequest

\* Change on the selected vehicle: setSelectedVehicle(null).
ChangeVehicle(s) ==
  /\ tripSuggestions[s] # Unmounted
  /\ tripSuggestions[s].selectedDriver # Null
  /\ tripSuggestions[s].selectedVehicle # Null
  /\ RenderTripSuggestions(s, [tripSuggestions[s] EXCEPT !.selectedVehicle = Null])
  /\ NoStoreRequest

\* Faulty variant of ConfirmedTripDetails: the simulated outcome is left out.
ConfirmedTripDetailsWithoutOutcome(suggestions, ts, deliveryStatus, actualDeliveryTime) ==
  [route |-> Spread(RouteAt(suggestions, ts.selectedRouteIndex),
                    [deliveryTimeSlot |-> suggestions.deliveryTimeSlot]),
   driver |-> ts.selectedDriver,
   vehicle |-> ts.selectedVehicle,
   actualDeliveryTime |-> actualDeliveryTime]

\* The details handleFinalConfirmTrip passes to onConfirmTrip; deliveryStatus and
\* actualDeliveryTime are what its two expressions over Math.random() give.
ConfirmedTripDetails(suggestions, ts, deliveryStatus, actualDeliveryTime) ==
  [route |-> Spread(RouteAt(suggestions, ts.selectedRouteIndex),
                    [deliveryTimeSlot |-> suggestions.deliveryTimeSlot]),
   driver |-> ts.selectedDriver,
   vehicle |-> ts.selectedVehicle,
   actualDeliveryTime |-> actualDeliveryTime,
   deliveryStatus |-> deliveryStatus]

\* TripPlanningFlow's handleConfirmTrip(details) on state p.
handleConfirmTrip(p, details) ==
  [p EXCEPT !.confirmedTrip = details, !.currentPhase = "summary"]

\* Faulty variant of handleFinalConfirmTrip: Confirm Trip is never disabled.
handleFinalConfirmTripNeverDisabled(s, deliveryStatus, delay) ==
  /\ tripSuggestions[s] # Unmounted
  /\ deliveryStatus \in DeliveryStatuses
  /\ delay \in DeliveryDelays
  /\ RenderPlanning(s, handleConfirmTrip(planning[s],
                         ConfirmedTripDetails(planning[s].suggestions, tripSuggestions[s],
                                              deliveryStatus, clock + delay)))
  /\ NoStoreRequest

\* Confirm Trip: handleFinalConfirmTrip, then handleConfirmTrip.
handleFinalConfirmTrip(s, deliveryStatus, delay) ==
  /\ tripSuggestions[s] # Unmounted
  /\ tripSuggestions[s].selectedDriver # Null
  /\ tripSuggestions[s].selectedVehicle # Null
  /\ deliveryStatus \in DeliveryStatuses
  /\ delay \in DeliveryDelays
  /\ RenderPlanning(s, handleConfirmTrip(planning[s],
                         ConfirmedTripDetails(planning[s].suggestions, tripSuggestions[s],
                                              deliveryStatus, clock + delay)))
  /\ NoStoreRequest

\* Back to Form: handleBackToFormInternal.
handleBackToFormInternal(s) ==
  /\ tripSuggestions[s] # Unmounted
  /\ RenderPlanning(s, [planning[s] EXCEPT !.suggestions = Null,
                                           !.confirmedTrip = Null,
                                           !.currentPhase = "form"])
  /\ NoStoreRequest

\* Edit on a section of the summary: setCurrentPhase('suggestions').
EditFromSummary(s) ==
  /\ ShowsSummary(dashboard[s].role, planning[s])
  /\ isEditable(dashboard[s].role)
  /\ RenderPlanning(s, [planning[s] EXCEPT !.currentPhase = "suggestions"])
  /\ NoStoreRequest

\* Dispatch Now: handleDispatchNow.  saveTripToFirestore is called and not waited
\* for; the notification, the view and the form are set at once.
handleDispatchNow(s) ==
  LET p == planning[s]
  IN  /\ ShowsSummary(dashboard[s].role, p)
      /\ isEditable(dashboard[s].role)
      /\ clock < MaxClock
      /\ InFlight < MaxPending
      /\ ~Has(p.confirmedTrip, "id") => FreeIds # {}
      /\ saveTripToFirestore(s, p.confirmedTrip)
      /\ Reconcile(s, handleGoToOverview(dashboard[s],
                        Message("Trip Dispatched successfully!", ""), "success"),
                   [p EXCEPT !.suggestions = Null, !.confirmedTrip = Null,
                             !.origin = "", !.destination = "", !.loadWeight = "",
                             !.loadVolume = "", !.deliveryTimeSlot = "",
                             !.routePreference = "fastest"],
                   tripSuggestions[s], driverSuggestions[s],
                   vehicleSuggestions[s], tripsOverview[s])
      /\ UNCHANGED scoreVars

-----------------------------------------------------------------------------
(* TripsOverview.                                                          *)

\* String.prototype.toLowerCase on a trip status.
toLowerCase(status) ==
  CASE status = "Scheduled" -> "scheduled"
    [] status = "In Progress" -> "in progress"
    [] status = "Completed" -> "completed"
    [] status = "Cancelled" -> "cancelled"
    [] OTHER -> status

\* The values of the filter buttons.
Filters == {"all", "scheduled", "in progress", "completed", "cancelled"}

\* Faulty variant of passesFilter: the status is compared as it is stored.
passesFilterCaseSensitive(trip, filter) == filter = "all" \/ trip.status = filter

\* The predicate of trips.filter(...): every trip under 'all', otherwise the trips
\* whose lower-cased status is the filter.
passesFilter(trip, filter) == filter = "all" \/ toLowerCase(trip.status) = filter

\* new Date(createdAt) of a stored creation time, as a number.
DateOf(createdAt) == createdAt

\* filteredTrips: trips.filter(...).sort((a, b) => new Date(b.createdAt) - new Date(a.createdAt)).
filteredTrips(ov) ==
  LET passing == SelectSeq(ov.trips, LAMBDA trip : passesFilter(trip, ov.filter))
      dated == [i \in DOMAIN passing |-> [trip |-> passing[i],
                                          date |-> DateOf(passing[i].createdAt)]]
      sorted == SortDesc(dated, "date")
  IN  [i \in DOMAIN sorted |-> sorted[i].trip]

\* TripsOverview renders the page with the filter buttons and the trips table: it
\* is past the returns of `if (loading)` and `if (error)`.
ShowsTripsTable(s) ==
  /\ tripsOverview[s] # Unmounted
  /\ ~tripsOverview[s].loading
  /\ tripsOverview[s].error = Null

\* The trips table is rendered and has a row for the trip with this id.
ListsTrip(s, tripId) ==
  /\ ShowsTripsTable(s)
  /\ \E i \in DOMAIN filteredTrips(tripsOverview[s]) :
        filteredTrips(tripsOverview[s])[i].id = tripId

\* A filter button: setFilter(status).
setFilter(s, status) ==
  /\ ShowsTripsTable(s)
  /\ tripsOverview[s].filter # status
  /\ tripsOverview' = [tripsOverview EXCEPT ![s].filter = status]
  /\ UNCHANGED << dashboard, planning, tripSuggestions, driverSuggestions,
                  vehicleSuggestions, settingsPanel >>
  /\ NoStoreRequest

\* The onSnapshot callback of the subscription to the trips of the userId:
\* setTrips(fetchedTrips); setLoading(false); setError(null).
OnSnapshot(s) ==
  /\ userId[s] # NoUser
  /\ tripsOverview[s] # Unmounted
  /\ \/ tripsOverview[s].loading
     \/ tripsOverview[s].error # Null
     \/ tripsOverview[s].trips # fetchedTrips(tripsCollection(store, userId[s]))
  /\ tripsOverview' = [tripsOverview EXCEPT ![s] =
                         [@ EXCEPT !.trips = fetchedTrips(tripsCollection(store, userId[s])),
                                   !.loading = FALSE,
                                   !.error = Null]]
  /\ UNCHANGED << dashboard, planning, tripSuggestions, driverSuggestions,
                  vehicleSuggestions, settingsPanel >>
  /\ NoStoreRequest

\* The text the error callback of onSnapshot sets.
SubscribeError ==
  Message("Failed to subscribe to trip updates. Check console for details.", "")

\* The error callback of onSnapshot: setError(...); setLoading(false).  The trips
\* stay as they are; the page shows the error in place of the table.
OnSnapshotError(s) ==
  /\ tripsOverview[s] # Unmounted
  /\ tripsOverview[s].loading \/ tripsOverview[s].error # SubscribeError
  /\ tripsOverview' = [tripsOverview EXCEPT ![s] =
                         [@ EXCEPT !.error = SubscribeError, !.loading = FALSE]]
  /\ UNCHANGED << dashboard, planning, tripSuggestions, driverSuggestions,
                  vehicleSuggestions, settingsPanel >>
  /\ NoStoreRequest

\* updateTripStatus(tripId, newStatus) in session s, up to its await; confirmAction:
\* the answer to window.confirm.  Without a userId or without the capability the
\* toast is set and the handler returns; with the operator's confirmation updateDoc
\* is issued, on the path of the userId at the call, and the handler is left
\* waiting for it, nothing else having changed.
updateTripStatus(s, tripId, newStatus, confirmAction) ==
  LET d == dashboard[s]
      ov == tripsOverview[s]
      outcome == IF userId[s] = NoUser \/ ~canModifyTrips(d.role) THEN "denied"
                 ELSE IF ~confirmAction THEN "declined"
                 ELSE "requested"
  IN  /\ outcome = "requested" => InFlight < MaxPending
      /\ pendingWrite' =
           IF outcome = "requested"
           THEN [pendingWrite EXCEPT ![s] =
                   Append(@, [op |-> "updateTripStatus",
                              tripId |-> tripId, newStatus |-> newStatus,
                              userId |-> userId[s]])]
           ELSE pendingWrite
      /\ RenderDashboard(s,
           IF outcome = "denied"
           THEN [d EXCEPT !.toast =
                   onShowToast(Message("You do not have permission to change trip status to '${newStatus}'.",
                                       newStatus), "error")]
           ELSE d)
      /\ event' = [op |-> "updateTripStatus", session |-> s, tripId |-> tripId,
                   newStatus |-> newStatus, role |-> d.role,
                   outcome |-> outcome]
      /\ UNCHANGED << store, docUser, userId, clock, scoreVars >>

\* updateTripStatus from its await on, in session s: the oldest write in flight,
\* one of updateTripStatus, settles (the store applies a client's writes in the
\* order they were issued); ok: the store accepts the write (it rejects a write to a path that
\* holds no such document).  The store is written and the success toast set, or
\* the failure toast set.  The trips listed change with the next snapshot.
updateTripStatusSettles(s, ok) ==
  LET w == Head(pendingWrite[s])
      written == ok /\ tripsCollection(store, w.userId)[w.tripId] # Null
  IN  /\ pendingWrite[s] # << >>
      /\ w.op = "updateTripStatus"
      /\ store' = IF written
                  THEN updateDoc(store, w.tripId, statusUpdate(w.newStatus))
                  ELSE store
      /\ pendingWrite' = [pendingWrite EXCEPT ![s] = Tail(@)]
      /\ RenderDashboard(s, [dashboard[s] EXCEPT !.toast =
           IF written
           THEN onShowToast(Message("Trip status updated to '${newStatus}' successfully!",
                                    w.newStatus), "success")
           ELSE onShowToast(Message("Failed to update trip status to '${newStatus}'.",
                                    w.newStatus), "error")])
      /\ event' = [op |-> "updateTripStatus", session |-> s, tripId |-> w.tripId,
                   newStatus |-> w.newStatus, accepted |-> ok,
                   before |-> store[w.tripId].status,
                   outcome |-> IF written THEN "written" ELSE "failed"]
      /\ UNCHANGED << docUser, userId, clock, scoreVars >>

\* The row of trip tripId has the In Progress, Cancel and Remind buttons:
\* trip.status.toLowerCase() === 'scheduled' && canModifyTrips.
ShowsScheduledButtons(s, tripId) ==
  /\ ListsTrip(s, tripId)
  /\ toLowerCase(TripById(tripsOverview[s].trips, tripId).status) = "scheduled"
  /\ canModifyTrips(dashboard[s].role)

\* Faulty variant of ShowsInProgressButtons: the buttons are on every row.
ShowsInProgressButtonsOnEveryRow(s, tripId) ==
  /\ ListsTrip(s, tripId)
  /\ canModifyTrips(dashboard[s].role)

\* The row of trip tripId has the Complete and Cancel buttons:
\* trip.status.toLowerCase() === 'in progress' && canModifyTrips.
ShowsInProgressButtons(s, tripId) ==
  /\ ListsTrip(s, tripId)
  /\ toLowerCase(TripById(tripsOverview[s].trips, tripId).status) = "in progress"
  /\ canModifyTrips(dashboard[s].role)

\* The In Progress button of a trip shown as scheduled: handleMarkInProgress.
handleMarkInProgress(s, tripId, confirmAction) ==
  /\ ShowsScheduledButtons(s, tripId)
  /\ updateTripStatus(s, tripId, "In Progress", confirmAction)

\* The Complete button of a trip shown as in progress: handleMarkCompleted.
handleMarkCompleted(s, tripId, confirmAction) ==
  /\ ShowsInProgressButtons(s, tripId)
  /\ updateTripStatus(s, tripId, "Completed", confirmAction)

\* The Cancel button of a trip shown as scheduled or in progress: handleCancelTrip.
handleCancelTrip(s, tripId, confirmAction) ==
  /\ ShowsScheduledButtons(s, tripId) \/ ShowsInProgressButtons(s, tripId)
  /\ updateTripStatus(s, tripId, "Cancelled", confirmAction)

\* handleSendReminder(trip) for a listed trip: without the capability the
\* permission toast is set and the handler returns; else the reminder toast is set.
handleSendReminder(s, tripId) ==
  /\ ListsTrip(s, tripId)
  /\ RenderDashboard(s, [dashboard[s] EXCEPT !.toast =
        IF ~canModifyTrips(dashboard[s].role)
        THEN onShowToast(Message("You do not have permission to send reminders.", ""),
                         "error")
        ELSE onShowToast(Message("Reminder sent to ${driver} for trip ${id}!",
                                 TripById(tripsOverview[s].trips, tripId).driver.name),
                         "success")])
  /\ NoStoreRequest

\* The Remind button of a trip shown as scheduled.
ClickRemind(s, tripId) ==
  /\ ShowsScheduledButtons(s, tripId)
  /\ handleSendReminder(s, tripId)

\* The View button of a listed trip: handleViewTripDetails(trip).
handleViewTripDetails(s, tripId) ==
  /\ ListsTrip(s, tripId)
  /\ RenderDashboard(s, [dashboard[s] EXCEPT
        !.tripToView = TripById(tripsOverview[s].trips, tripId),
        !.currentView = "planning"])
  /\ NoStoreRequest

\* A status-change handler invoked on a listed trip without its button being
\* rendered (a call of handleMarkInProgress / handleMarkCompleted / handleCancelTrip
\* by a test or a script): the guards of updateTripStatus are all that stand.
RequestStatusChange(s, tripId, newStatus, confirmAction) ==
  /\ ListsTrip(s, tripId)
  /\ newStatus \in {"In Progress", "Completed", "Cancelled"}
  /\ updateTripStatus(s, tripId, newStatus, confirmAction)

\* calculateDeliveryMetrics() over the loaded trips.
calculateDeliveryMetrics(trips) ==
  LET completedTrips == {i \in DOMAIN trips : toLowerCase(trips[i].status) = "completed"}
  IN  [onTime |-> Cardinality({i \in completedTrips :
                                 Get(trips[i], "deliveryStatus") = "on-time"}),
       delayed |-> Cardinality({i \in completedTrips :
                                  Get(trips[i], "deliveryStatus") = "delayed"}),
       completed |-> Cardinality(completedTrips)]

\* role === 'admin': the Delivery Metrics panel is rendered.
canViewAnalytics(role) == role = "admin"

-----------------------------------------------------------------------------
(* The application.                                                        *)

\* The components as the page has mounted them, and nothing in flight.
PageLoaded ==
  /\ dashboard = [s \in Sessions |-> DashboardInit]
  /\ planning = [s \in Sessions |-> PlanningInit(Null)]
  /\ tripSuggestions = [s \in Sessions |-> Unmounted]
  /\ driverSuggestions = [s \in Sessions |-> Unmounted]
  /\ vehicleSuggestions = [s \in Sessions |-> Unmounted]
  /\ tripsOverview = [s \in Sessions |-> Unmounted]
  /\ settingsPanel = [s \in Sessions |-> Unmounted]
  /\ pendingWrite = [s \in Sessions |-> << >>]
  /\ event = NoEvent

\* The tabs after the callback of onAuthStateChanged has reported the users of
\* uids and the pages have rendered, on a store that holds no trip yet.  Later
\* calls of the callback, with another uid or with no user, are the steps
\* onAuthStateChanged of SpecUsers; the other specifications follow the tabs
\* while their sign-in state stays as it is here.
SignedIn(uids) ==
  /\ userId = uids
  /\ docUser = [i \in TripIds |-> Undefined]
  /\ store = [i \in TripIds |-> Null]
  /\ clock = 0
  /\ PageLoaded

\* The times at which the trips of an earlier visit were dispatched: before this
\* visit's readings of the clock, trip 1 first.
EarlierTime(i) == i - MaxTrips

\* The simulated delivery of the trips of an earlier visit.
EarlierDeliveryStatus(i) == IF i = 1 THEN "on-time" ELSE "delayed"

\* The document of trip i as an earlier visit left it in the store: the routine
\* form submitted (handleSubmit), the recommended driver and vehicle confirmed
\* on the first route (handleConfirmDriver, handleConfirmVehicle,
\* handleFinalConfirmTrip), and the plan dispatched (saveTripToFirestore's setDoc).
EarlierTrip(i) ==
  LET suggestions == mockSuggestions(SubmittedTripData(CHOOSE f \in RoutineForms : TRUE))
      ts == [TripSuggestionsInit EXCEPT
               !.selectedDriver = Find(suggestions.drivers, suggestions.recommendedDriverId),
               !.selectedVehicle = Find(suggestions.vehicles,
                                        suggestions.recommendedVehicleId)]
  IN  newTripDocument(ConfirmedTripDetails(suggestions, ts, EarlierDeliveryStatus(i),
                                           EarlierTime(i)),
                      EarlierTime(i))

\* The tabs are signed in as uids, on a store that holds the trips of earlier
\* visits: trip i under the path of owners[i] (none where that is Undefined).
Returning(uids, owners) ==
  /\ userId = uids
  /\ docUser = owners
  /\ store = [i \in TripIds |-> IF owners[i] = Undefined THEN Null ELSE EarlierTrip(i)]
  /\ clock = 0
  /\ PageLoaded

\* Every tab in one browser: all are signed in as the same user.
AppInit == SignedIn([s \in Sessions |-> "user1"])

Init ==
  /\ AppInit
  /\ scoreArgs = Null
  /\ scoreOut = << >>

DriverIds == {mockDrivers[i].id : i \in DOMAIN mockDrivers}

VehicleIds == {mockVehicles[i].id : i \in DOMAIN mockVehicles}

\* The statuses a lifecycle handler asks for.
RequestedStatuses == {"In Progress", "Completed", "Cancelled"}

\* The role selector and the Settings button.
SwitchRole(s) ==
  \/ \E r \in Roles : SetRole(s, r)
  \/ ClickSettings(s)

\* The fields of the planning form that carry the attribute required.
RequiredFields ==
  << "origin", "destination", "loadWeight", "loadVolume", "deliveryTimeSlot" >>

\* The browser lets the form be submitted: no required field is empty.
RequiredFieldsFilled(s) ==
  /\ planning[s] # Unmounted
  /\ \A i \in DOMAIN RequiredFields : planning[s][RequiredFields[i]] # ""

\* What the operator may put into a field of the planning form: what one of forms
\* has there, or what the field holds when the form is mounted.
FieldValues(forms, field) == {f[field] : f \in forms} \cup {PlanningInit(Null)[field]}

\* The operator changes a field of the planning form.
FillIn(s, forms) ==
  \E i \in DOMAIN FormFields : \E value \in FieldValues(forms, FormFields[i]) :
     setFormField(s, FormFields[i], value)

\* The operator presses Plan Trip.
Submit(s) == RequiredFieldsFilled(s) /\ handleSubmit(s)

\* The planning flow with the recommended route, driver and vehicle accepted;
\* the form is one of forms, the simulated delivery outcome one of outcomes.
Plan(s, forms, outcomes) ==
  \/ FillIn(s, forms)
  \/ Submit(s)
  \/ \E id \in DriverIds : handleConfirmDriver(s, id)
  \/ ChangeDriver(s)
  \/ \E id \in VehicleIds : handleConfirmVehicle(s, id)
  \/ ChangeVehicle(s)
  \/ \E ds \in outcomes, delay \in DeliveryDelays : handleFinalConfirmTrip(s, ds, delay)
  \/ handleBackToFormInternal(s)

\* The summary's buttons.
Summary(s) ==
  \/ EditFromSummary(s)
  \/ handleDispatchNow(s)

\* The operator overrides the recommended driver or vehicle.
OverrideCrew(s) ==
  \/ \E id \in DriverIds : SelectDriver(s, id)
  \/ \E id \in VehicleIds : SelectVehicle(s, id)

\* The operator picks another route card.
OverrideRoute(s) == \E index \in RouteIndices : SelectRoute(s, index)

\* Leaving the overview: Plan New Trip, or View on a trip's row.
Leave(s) ==
  \/ ClickPlanNewTrip(s)
  \/ \E id \in TripIds : handleViewTripDetails(s, id)

\* Going to the overview, its snapshot listener, and the closing of a notification.
Watch(s) ==
  \/ ClickTripsOverview(s)
  \/ CloseToast(s)
  \/ OnSnapshot(s)

\* The store settles the oldest write the session has in flight.
Settle(s) ==
  \/ \E ok \in BOOLEAN : saveTripToFirestoreSettles(s, ok)
  \/ \E ok \in BOOLEAN : updateTripStatusSettles(s, ok)

\* The snapshot listener fails.
Fail(s) == OnSnapshotError(s)

\* The buttons of a trip's row in the overview.
Advance(s) ==
  \/ \E id \in TripIds, c \in BOOLEAN : handleMarkInProgress(s, id, c)
  \/ \E id \in TripIds, c \in BOOLEAN : handleMarkCompleted(s, id, c)
  \/ \E id \in TripIds, c \in BOOLEAN : handleCancelTrip(s, id, c)

\* The Remind button of a trip's row.
Remind(s) == \E id \in TripIds : ClickRemind(s, id)

\* The reminder handler called on a listed trip whatever buttons are rendered.
RequestReminder(s) == \E id \in TripIds : handleSendReminder(s, id)

\* A lifecycle handler called on a listed trip whatever buttons are rendered.
Request(s) ==
  \E id \in TripIds, ns \in RequestedStatuses, c \in BOOLEAN :
     RequestStatusChange(s, id, ns, c)

\* One dispatcher tab: trips are planned with the recommended picks, dispatched,
\* opened again from the overview and dispatched again, and advanced with the
\* buttons of their rows, while writes settle and snapshots arrive.
Next ==
  \E s \in Planners :
     \/ Plan(s, RoutineForms, RoutineDeliveryStatuses) \/ Summary(s) \/ Leave(s)
     \/ Watch(s) \/ Settle(s) \/ Advance(s)

Spec == Init /\ [][Next]_vars

\* Two dispatcher tabs that both advance the trip planned and dispatched in one of
\* them.
NextRace ==
  \/ \E s \in Planners :
        Plan(s, RoutineForms, RoutineDeliveryStatuses) \/ handleDispatchNow(s)
  \/ \E s \in Sessions : Watch(s) \/ Settle(s) \/ Advance(s)

SpecRace == Init /\ [][NextRace]_vars

\* One dispatcher tab whose operator plans with any form, picks any route, driver
\* and vehicle, confirms, and edits the confirmed plan; nothing is dispatched.
NextPlan ==
  \E s \in Planners :
     \/ Plan(s, FormInputs, DeliveryStatuses) \/ OverrideCrew(s) \/ OverrideRoute(s)
     \/ EditFromSummary(s)

SpecPlan == Init /\ [][NextPlan]_vars

\* One dispatcher tab whose operator plans with any driver and vehicle,
\* dispatches, and opens dispatched trips from the overview.
NextCrew ==
  \E s \in Planners :
     \/ Plan(s, RoutineForms, RoutineDeliveryStatuses) \/ OverrideCrew(s)
     \/ Summary(s) \/ Leave(s) \/ Watch(s)
     \/ \E ok \in BOOLEAN : saveTripToFirestoreSettles(s, ok)

SpecCrew == Init /\ [][NextCrew]_vars

\* The filter buttons of the overview.
Filter(s) == \E status \in Filters : setFilter(s, status)

\* Every tab of the one user, who comes back to the trips of earlier visits.
InitReturning ==
  /\ Returning([s \in Sessions |-> "user1"], [i \in TripIds |-> "user1"])
  /\ scoreArgs = Null
  /\ scoreOut = << >>

\* One tab whose operator comes back to the trips of earlier visits, switches
\* role, and works in the overview: its filter buttons and the buttons of its rows.
NextOverview ==
  \E s \in Planners :
     \/ SwitchRole(s)
     \/ Watch(s) \/ Fail(s) \/ Advance(s) \/ Filter(s)
     \/ \E ok \in BOOLEAN : updateTripStatusSettles(s, ok)

SpecOverview == InitReturning /\ [][NextOverview]_vars

\* One tab whose operator becomes administrator, plans trips whose simulated
\* delivery is on time or delayed, dispatches them, and starts and completes them
\* in the overview.
NextMetrics ==
  \E s \in Planners :
     \/ SetRole(s, "admin")
     \/ Plan(s, RoutineForms, DeliveryStatuses) \/ handleDispatchNow(s)
     \/ ClickPlanNewTrip(s) \/ ClickTripsOverview(s) \/ OnSnapshot(s)
     \/ Settle(s)
     \/ \E id \in TripIds, c \in BOOLEAN : handleMarkInProgress(s, id, c)
     \/ \E id \in TripIds, c \in BOOLEAN : handleMarkCompleted(s, id, c)

SpecMetrics == Init /\ [][NextMetrics]_vars

-----------------------------------------------------------------------------
(* The scoring harness.                                                    *)

\* The arguments drawn: performanceRating 1.0 .. 5.0 and hoursWorked
\* 0.0 .. MaxHoursTenths / 10 in steps of 0.1, proximityScore 0 .. 100 in steps of 5.
ScoreInputs ==
  [performanceRating : 10 .. 50,
   hoursWorked : 0 .. MaxHoursTenths,
   proximityScore : {50 * k : k \in 0 .. 20}]

InitScore ==
  /\ AppInit
  /\ scoreArgs \in ScoreInputs
  /\ scoreOut = << >>

\* One more invocation of calculateDriverScore on the arguments drawn.
InvokeDriverScorer ==
  /\ Len(scoreOut) < MaxInvocations
  /\ scoreOut' = Append(scoreOut,
                        calculateDriverScore(scoreArgs.performanceRating,
                                             scoreArgs.hoursWorked,
                                             scoreArgs.proximityScore))
  /\ UNCHANGED << appVars, scoreArgs >>

NextScore == InvokeDriverScorer

SpecScore == InitScore /\ [][NextScore]_vars

-----------------------------------------------------------------------------
(* The ranking harness: the scoring and sorting of handleSubmit on candidate *)
(* lists drawn in InitRank, run again on the same lists and on lists in     *)
(* which one candidate's inputs were changed.                               *)

\* The inputs a driver candidate may carry: those of the three drivers of
\* handleSubmit, and those of the second of them with 12 hours worked, which
\* score like the second.
DriverProfiles ==
  { [k \in {"performanceRating", "hoursWorked", "proximityScore"} |-> mockDrivers[i][k]] :
       i \in DOMAIN mockDrivers }
    \cup { [performanceRating |-> 4, hoursWorked |-> 12, proximityScore |-> 50] }

\* The inputs a vehicle candidate may carry: those of the three vehicles of
\* handleSubmit; two candidates of one profile score alike.
VehicleProfiles ==
  { [k \in {"fuelEfficiency", "utilizationScore", "maintenanceStatus"} |-> mockVehicles[i][k]] :
       i \in DOMAIN mockVehicles }

\* The id of the candidate at a position of an input list.
CandidateId(kind, i) ==
  IF kind = "driver" THEN << "driver1", "driver2", "driver3", "driver4" >>[i]
  ELSE << "vehicle1", "vehicle2", "vehicle3", "vehicle4" >>[i]

\* The candidate lists of up to MaxCandidates entries with inputs from profiles.
CandidateLists(kind, profiles) ==
  UNION { { [i \in 1 .. n |-> Spread(f[i], [id |-> CandidateId(kind, i)])] :
              f \in [1 .. n -> profiles] } : n \in 0 .. MaxCandidates }

\* The lists drawn: the two lists handleSubmit ranks, as they stand in the code,
\* and every pair of candidate lists.
RankInputs ==
  { [drivers |-> mockDrivers, vehicles |-> mockVehicles] }
    \cup [drivers : CandidateLists("driver", DriverProfiles),
          vehicles : CandidateLists("vehicle", VehicleProfiles)]

InitRank ==
  /\ AppInit
  /\ scoreArgs \in RankInputs
  /\ scoreOut = << >>

\* The scoring and sorting of handleSubmit on the candidate lists, and the
\* recommended ids it puts into the suggestions.
RankCandidates ==
  /\ Len(scoreOut) < MaxInvocations
  /\ scoreOut' = Append(scoreOut,
        [input |-> scoreArgs,
         drivers |-> scoreDrivers(scoreArgs.drivers),
         recommendedDriverId |-> recommendedId(scoreDrivers(scoreArgs.drivers)),
         vehicles |-> scoreVehicles(scoreArgs.vehicles),
         recommendedVehicleId |-> recommendedId(scoreVehicles(scoreArgs.vehicles))])
  /\ UNCHANGED << appVars, scoreArgs >>

\* The inputs of the driver candidate at position k change, once, after the
\* first ranking.
ChangeDriverInputs(k, profile) ==
  /\ Len(scoreOut) = 1
  /\ scoreOut[1].input = scoreArgs
  /\ k \in DOMAIN scoreArgs.drivers
  /\ scoreArgs' = [scoreArgs EXCEPT !.drivers[k] = Spread(@, profile)]
  /\ scoreArgs' # scoreArgs
  /\ UNCHANGED << appVars, scoreOut >>

\* The inputs of the vehicle candidate at position k change, once, after the
\* first ranking.
ChangeVehicleInputs(k, profile) ==
  /\ Len(scoreOut) = 1
  /\ scoreOut[1].input = scoreArgs
  /\ k \in DOMAIN scoreArgs.vehicles
  /\ scoreArgs' = [scoreArgs EXCEPT !.vehicles[k] = Spread(@, profile)]
  /\ scoreArgs' # scoreArgs
  /\ UNCHANGED << appVars, scoreOut >>

NextRank ==
  \/ RankCandidates
  \/ \E k \in 1 .. MaxCandidates, profile \in DriverProfiles :
        ChangeDriverInputs(k, profile)
  \/ \E k \in 1 .. MaxCandidates, profile \in VehicleProfiles :
        ChangeVehicleInputs(k, profile)

SpecRank == InitRank /\ [][NextRank]_vars

-----------------------------------------------------------------------------
(* The vehicle scoring harness.                                            *)

\* The maintenance statuses a vehicle carries.
MaintenanceStatuses == {"Good", "Needs Check", "Poor"}

\* The arguments drawn for calculateVehicleScore: fuelEfficiency
\* 0.0 .. MaxFuelEfficiencyTenths / 10 in steps of 0.1, utilizationScore 0 .. 100
\* in steps of 5, and each maintenance status.
VehicleScoreInputs ==
  [fuelEfficiency : 0 .. MaxFuelEfficiencyTenths,
   utilizationScore : {50 * k : k \in 0 .. 20},
   maintenanceStatus : MaintenanceStatuses]

InitVehicleScore ==
  /\ AppInit
  /\ scoreArgs \in VehicleScoreInputs
  /\ scoreOut = << >>

\* One more invocation of calculateVehicleScore on the arguments drawn.
InvokeVehicleScorer ==
  /\ Len(scoreOut) < MaxInvocations
  /\ scoreOut' = Append(scoreOut,
                        calculateVehicleScore(scoreArgs.fuelEfficiency,
                                              scoreArgs.utilizationScore,
                                              scoreArgs.maintenanceStatus))
  /\ UNCHANGED << appVars, scoreArgs >>

NextVehicleScore == InvokeVehicleScorer

SpecVehicleScore == InitVehicleScore /\ [][NextVehicleScore]_vars

-----------------------------------------------------------------------------
(* Trip lifecycle and persistence: properties.                             *)

\* The statuses the lifecycle calls terminal.
TerminalStatuses == {"Completed", "Cancelled"}

\* The edges of the lifecycle's transition table.
TransitionTable ==
  { << "Scheduled", "In Progress" >>, << "Scheduled", "Cancelled" >>,
    << "In Progress", "Completed" >>, << "In Progress", "Cancelled" >> }

\* The roles with the trip-modify capability.
ModifyRoles == {"dispatcher", "admin"}

\* C1: once a trip's stored status is Completed or Cancelled, no step of the
\* application (a status change from an overview, Dispatch Now on an opened trip,
\* from either session) changes that trip's stored status.
C1_TerminalStatusIsFinal ==
  [][\A id \in TripIds :
        (store[id] # Null /\ store[id].status \in TerminalStatuses)
           => store'[id].status = store[id].status]_vars

\* C2: a confirmed status-change request that has settled, and whose (stored
\* status, requested status) pair is not an edge of the transition table, is
\* rejected: nothing is written and the session that asked is shown the
\* notification of the failure.
C2_IllegalTransitionIsRejected ==
  (/\ event.op = "updateTripStatus"
   /\ event.outcome \in {"written", "failed"}
   /\ << event.before, event.newStatus >> \notin TransitionTable)
     => /\ store[event.tripId].status = event.before
        /\ dashboard[event.session].toast # Null
        /\ Has(dashboard[event.session].toast, "message")
        /\ ToastMessageProps(dashboard[event.session].toast).message =
              Message("Failed to update trip status to '${newStatus}'.", event.newStatus)

\* The notification shown for a toast state is the permission error: ToastMessage
\* is rendered with the permission text as its message, in the colour of an error.
ShowsPermissionError(toast, newStatus) ==
  /\ toast # Null
  /\ Has(toast, "message")
  /\ ToastMessageProps(toast).message =
       Message("You do not have permission to change trip status to '${newStatus}'.",
               newStatus)
  /\ bgColor(ToastMessageProps(toast).type) = "bg-red-500"

\* C3: a status-change request made under a role that is neither dispatcher nor
\* admin writes nothing to the store, puts no write in flight, and the session is
\* shown the permission error notification.
C3_ReadOnlyRoleIsDenied ==
  [][(/\ event'.op = "updateTripStatus"
      /\ event'.outcome \in {"denied", "declined", "requested"}
      /\ event'.role \notin ModifyRoles)
        => /\ store' = store
           /\ pendingWrite' = pendingWrite
           /\ ShowsPermissionError(dashboard'[event'.session].toast, event'.newStatus)]_vars

\* C4: a document that a step adds to the trips collection has status Scheduled.
C4_NewTripIsScheduled ==
  [][\A id \in TripIds :
        (store[id] = Null /\ store'[id] # Null)
           => Get(store'[id], "status") = "Scheduled"]_vars

\* C4 witness: the write of Dispatch Now has just created a trip, while another
\* trip is stored.
C4_Witness ==
  /\ event.op = "saveTripToFirestore"
  /\ event.kind = "create"
  /\ event.outcome = "written"
  /\ store[event.tripId].status = "Scheduled"
  /\ \E j \in TripIds \ {event.tripId} : store[j] # Null

\* C5: a status change that is written changes the status field of the trip it
\* targets and nothing else: not another field of that trip, not another trip.
C5_TransitionWritesOnlyStatus ==
  [][(event'.op = "updateTripStatus" /\ event'.outcome = "written")
        => store' = [store EXCEPT ![event'.tripId] =
                       [@ EXCEPT !.status = event'.newStatus]]]_vars

\* C5 witness: a status change of one trip has been written while another trip is
\* stored, and the changed trip has its status changed and its route, driver,
\* vehicle and creation time in place.
C5_Witness ==
  /\ event.op = "updateTripStatus"
  /\ event.outcome = "written"
  /\ event.before # event.newStatus
  /\ store[event.tripId].status = event.newStatus
  /\ \A k \in {"route", "driver", "vehicle", "deliveryStatus", "actualDeliveryTime",
               "createdAt"} : Has(store[event.tripId], k)
  /\ \E j \in TripIds \ {event.tripId} : store[j] # Null

\* A step changed no trip other than id.
OnlyTripChanged(id) == \A j \in TripIds \ {id} : store'[j] = store[j]

\* The trip a settled write of Dispatch Now carried is a plan confirmed in the
\* planning flow: a route, a driver, a vehicle and the simulated delivery.
IsConfirmedPlan(tripData) ==
  \A k \in {"route", "driver", "vehicle", "actualDeliveryTime", "deliveryStatus"} :
     Has(tripData, k)

\* A step created trip id from the plan a session had confirmed and dispatched,
\* not opened from the overview: the plan's fields, status Scheduled and, as
\* creation time, the time Dispatch Now was pressed.
IsCreateOnDispatch(id) ==
  /\ store[id] = Null
  /\ event'.op = "saveTripToFirestore"
  /\ event'.tripId = id
  /\ IsConfirmedPlan(event'.tripData)
  /\ ~Has(event'.tripData, "id")
  /\ store'[id] = Spread(event'.tripData,
                         [status |-> "Scheduled", createdAt |-> event'.at])

\* A step changed the status field of trip id and nothing else of it.
IsStatusOnlyUpdate(id) ==
  /\ store[id] # Null
  /\ \E st \in RequestedStatuses : store'[id] = [store[id] EXCEPT !.status = st]

\* C6: a step that changes the trips collection is a create on the dispatch of a
\* newly confirmed plan or a status-only update of one trip; no other operation
\* (Dispatch Now on a trip opened from the overview in particular) writes a trip
\* record or any other set of fields.
C6_TwoKindsOfWrite ==
  [][store' # store
        => \E id \in TripIds :
              /\ OnlyTripChanged(id)
              /\ IsCreateOnDispatch(id) \/ IsStatusOnlyUpdate(id)]_vars

\* C7: a status change that a dispatcher or admin confirmed (no other is put in
\* flight) is written when the store settles it, whatever the trip's stored status
\* has become since the session observed it (it fails only when the store itself
\* refuses the write): the stored status is then the one this last write asked for.
C7_LastWriteWins ==
  (/\ event.op = "updateTripStatus"
   /\ event.outcome \in {"written", "failed"}
   /\ event.accepted)
     => /\ event.outcome = "written"
        /\ store[event.tripId].status = event.newStatus

\* C7 witness: both sessions observed the trip as Scheduled (In Progress is
\* offered on no other row); the other session's change was written first, and
\* this session's change, asked for on the stale observation, has been written
\* over it.
C7_Witness ==
  /\ event.op = "updateTripStatus"
  /\ event.session = "A"
  /\ event.outcome = "written"
  /\ event.before = "Cancelled"
  /\ event.newStatus = "In Progress"
  /\ store[event.tripId].status = "In Progress"
  /\ tripsOverview["B"] # Unmounted
  /\ \E i \in DOMAIN tripsOverview["B"].trips :
        /\ tripsOverview["B"].trips[i].id = event.tripId
        /\ tripsOverview["B"].trips[i].status = "Cancelled"

-----------------------------------------------------------------------------
(* Planning: properties.                                                   *)

\* Session s confirms a plan in this step (Confirm Trip in TripSuggestions).
ConfirmsPlan(s) ==
  /\ planning[s].currentPhase = "suggestions"
  /\ planning'[s].currentPhase = "summary"

\* C8: no step changes the driver or vehicle of a persisted trip, and no step
\* other than a confirmation changes the driver or vehicle of the trip a session
\* holds as confirmed, whatever is planned or selected meanwhile.
C8_AssignedCrewIsSnapshot ==
  [][/\ \A id \in TripIds :
           store[id] # Null
              => /\ store'[id].driver = store[id].driver
                 /\ store'[id].vehicle = store[id].vehicle
     /\ \A s \in Sessions :
           (/\ planning[s] # Unmounted
            /\ planning[s].confirmedTrip # Null
            /\ planning'[s] # Unmounted
            /\ planning'[s].confirmedTrip # Null
            /\ ~ConfirmsPlan(s))
              => /\ planning'[s].confirmedTrip.driver = planning[s].confirmedTrip.driver
                 /\ planning'[s].confirmedTrip.vehicle = planning[s].confirmedTrip.vehicle
    ]_vars

\* C8 witness: a trip is persisted with an overriding driver and vehicle, and in a
\* later planning session, with the pools rebuilt, another driver and another
\* vehicle stand selected.
C8_Witness ==
  /\ store[1] # Null
  /\ store[1].driver.id # scoredDrivers[1].id
  /\ store[1].vehicle.id # scoredVehicles[1].id
  /\ tripSuggestions["A"] # Unmounted
  /\ tripSuggestions["A"].selectedDriver # Null
  /\ tripSuggestions["A"].selectedDriver.id # store[1].driver.id
  /\ tripSuggestions["A"].selectedVehicle # Null
  /\ tripSuggestions["A"].selectedVehicle.id # store[1].vehicle.id

\* The fields a Trip's route is to carry.
RouteFields ==
  {"origin", "destination", "distance", "eta", "cost", "riskRating",
   "deliveryTimeSlot", "routePreference"}

\* C9: the trip a session has confirmed from its plan carries a route with every
\* route field, and with the origin, destination, delivery time slot and route
\* preference as entered in the form, whichever route card was selected.
C9_ConfirmedRouteIsComplete ==
  \A s \in Sessions :
     (/\ planning[s] # Unmounted
      /\ planning[s].confirmedTrip # Null
      /\ ~Has(planning[s].confirmedTrip, "id"))
        => LET route == planning[s].confirmedTrip.route
           IN  /\ \A k \in RouteFields : Has(route, k)
               /\ route.origin = planning[s].origin
               /\ route.destination = planning[s].destination
               /\ route.deliveryTimeSlot = planning[s].deliveryTimeSlot
               /\ route.routePreference = planning[s].routePreference

-----------------------------------------------------------------------------
(* Scoring: properties.                                                    *)

Abs(n) == IF n < 0 THEN -n ELSE n

\* The reference driver score before rounding, in 1/300 of a point:
\* (p / 5) * 40 + (1 - min(h, 9) / 9) * 30 + (x / 100) * 30 clamped to [0, 100],
\* for p and h in tenths and x in tenths of a point.
ReferenceDriverScore300(p, h, x) ==
  LET raw == 240 * p + (9000 - 100 * (IF h < 90 THEN h ELSE 90)) + 9 * x
  IN  IF raw < 0 THEN 0 ELSE IF raw > 30000 THEN 30000 ELSE raw

\* C11: every result of calculateDriverScore is the hundredth nearest to the
\* reference formula's clamped value; score(5, 0, 100) = 100.00 and
\* score(1, 9, 0) = 8.00.
C11_DriverScoreIsReferenceFormula ==
  /\ \A i \in DOMAIN scoreOut :
        2 * Abs(3 * scoreOut[i]
                - ReferenceDriverScore300(scoreArgs.performanceRating,
                                          scoreArgs.hoursWorked,
                                          scoreArgs.proximityScore)) < 3
  /\ calculateDriverScore(50, 0, 1000) = 10000
  /\ calculateDriverScore(10, 90, 0) = 800

\* C11 witness: the scorer was invoked for rating 4.5, 2.5 hours and proximity
\* 35, where the formula gives 68.1666..., and returned 68.17.
C11_Witness ==
  /\ Len(scoreOut) >= 1
  /\ scoreArgs.performanceRating = 45
  /\ scoreArgs.hoursWorked = 25
  /\ scoreArgs.proximityScore = 350
  /\ scoreOut[1] = 6817

\* C12: with more than 9 hours worked the result is the result for exactly 9
\* hours, and the fatigue component is never negative;
\* score(3, 15, 50) = score(3, 9, 50).
C12_OvertimeScoresAsNineHours ==
  /\ \A i \in DOMAIN scoreOut :
        scoreArgs.hoursWorked > 90
           => scoreOut[i] = calculateDriverScore(scoreArgs.performanceRating, 90,
                                                 scoreArgs.proximityScore)
  /\ hoursComponent(scoreArgs.hoursWorked) >= 0
  /\ calculateDriverScore(30, 150, 500) = calculateDriverScore(30, 90, 500)

\* C12 witness: the scorer was invoked for rating 3, 12 hours and proximity 50
\* and returned 39.00, the score for 9 hours.
C12_Witness ==
  /\ Len(scoreOut) >= 1
  /\ scoreArgs.performanceRating = 30
  /\ scoreArgs.hoursWorked = 120
  /\ scoreArgs.proximityScore = 500
  /\ scoreOut[1] = 3900

\* The reference maintenance penalty, in points.
ReferencePenalty(status) ==
  CASE status = "Poor" -> 30
    [] status = "Needs Check" -> 15
    [] status = "Good" -> 0

\* The reference vehicle score in hundredths: fuelEfficiency * 5 +
\* utilizationScore - penalty clamped to [0, 100], for inputs in tenths (whose
\* score has at most one decimal, so that rounding to two leaves it as it is).
ReferenceVehicleScore(fe, u, status) ==
  LET raw == 5 * 10 * fe + 10 * u - 100 * ReferencePenalty(status)
  IN  IF raw < 0 THEN 0 ELSE IF raw > 100 * 100 THEN 100 * 100 ELSE raw

\* C13: every result of calculateVehicleScore is fuelEfficiency * 5 +
\* utilizationScore - penalty (30 Poor, 15 Needs Check, 0 Good) clamped to
\* [0, 100]; score(12, 75, Good) = 100.00 and score(5, 90, Poor) = 85.00.
C13_VehicleScoreIsReferenceFormula ==
  /\ \A i \in DOMAIN scoreOut :
        /\ scoreOut[i] = ReferenceVehicleScore(scoreArgs.fuelEfficiency,
                                               scoreArgs.utilizationScore,
                                               scoreArgs.maintenanceStatus)
        /\ 0 <= scoreOut[i] /\ scoreOut[i] <= 100 * 100
  /\ calculateVehicleScore(120, 750, "Good") = 10000
  /\ calculateVehicleScore(50, 900, "Poor") = 8500

\* C13 witness: the scorer was invoked for a vehicle in need of a check with
\* fuel efficiency 1.5 and utilization 5, and returned 0.00 for the raw -2.5.
C13_Witness ==
  /\ Len(scoreOut) >= 1
  /\ scoreArgs.fuelEfficiency = 15
  /\ scoreArgs.utilizationScore = 50
  /\ scoreArgs.maintenanceStatus = "Needs Check"
  /\ scoreOut[1] = 0

-----------------------------------------------------------------------------
(* Ranking: properties.                                                    *)

\* A scored entry without its score: the candidate it was made from.
Candidate(entry, key) == [k \in DOMAIN entry \ {key} |-> entry[k]]

\* The position of the candidate with this id in a list.
PositionOf(list, id) == CHOOSE i \in DOMAIN list : list[i].id = id

\* ranked is input in non-increasing order of the key, entry for entry.
IsRankingOf(ranked, input, key) ==
  /\ Len(ranked) = Len(input)
  /\ \A i \in DOMAIN input : \E j \in DOMAIN ranked : Candidate(ranked[j], key) = input[i]
  /\ \A i, j \in DOMAIN ranked : i < j => ranked[i][key] >= ranked[j][key]

\* C14: in every ranking made, the driver list and the vehicle list hold exactly
\* the input candidates, each with its computed score, in non-increasing order
\* of score, and the recommended ids are the ids of the first entries.
C14_RankedByScoreTopRecommended ==
  \A n \in DOMAIN scoreOut :
     LET e == scoreOut[n]
     IN  /\ IsRankingOf(e.drivers, e.input.drivers, "driverScore")
         /\ IsRankingOf(e.vehicles, e.input.vehicles, "vehicleScore")
         /\ \A i \in DOMAIN e.drivers :
               e.drivers[i].driverScore =
                 calculateDriverScore(10 * e.drivers[i].performanceRating,
                                      10 * e.drivers[i].hoursWorked,
                                      10 * e.drivers[i].proximityScore)
         /\ \A i \in DOMAIN e.vehicles :
               e.vehicles[i].vehicleScore =
                 calculateVehicleScore(10 * e.vehicles[i].fuelEfficiency,
                                       10 * e.vehicles[i].utilizationScore,
                                       e.vehicles[i].maintenanceStatus)
         /\ e.drivers # << >> => e.recommendedDriverId = e.drivers[1].id
         /\ e.vehicles # << >> => e.recommendedVehicleId = e.vehicles[1].id

\* C14 witness: the lists of handleSubmit were ranked: the drivers stand in the
\* order driver1 (74.00), driver3 (67.67), driver2 (47.00), the vehicles in the
\* order vehicle1 (100.00), vehicle3 (85.00), vehicle2 (75.00), and driver1 and
\* vehicle1 are recommended.
C14_Witness ==
  /\ Len(scoreOut) >= 1
  /\ scoreOut[1].input = [drivers |-> mockDrivers, vehicles |-> mockVehicles]
  /\ [i \in 1..3 |-> scoreOut[1].drivers[i].id] = << "driver1", "driver3", "driver2" >>
  /\ [i \in 1..3 |-> scoreOut[1].drivers[i].driverScore] = << 7400, 6767, 4700 >>
  /\ [i \in 1..3 |-> scoreOut[1].vehicles[i].id] = << "vehicle1", "vehicle3", "vehicle2" >>
  /\ [i \in 1..3 |-> scoreOut[1].vehicles[i].vehicleScore] = << 10000, 8500, 7500 >>
  /\ scoreOut[1].recommendedDriverId = "driver1"
  /\ scoreOut[1].recommendedVehicleId = "vehicle1"

\* Candidates a and b stand in the same order in both rankings.
SameOrder(ranked1, ranked2, a, b) ==
  (PositionOf(ranked1, a) < PositionOf(ranked1, b))
     <=> (PositionOf(ranked2, a) < PositionOf(ranked2, b))

\* Entries of equal key stand in their input order.
TiesKeepInputOrder(ranked, input, key) ==
  \A i, j \in DOMAIN ranked :
     (i < j /\ ranked[i][key] = ranked[j][key])
        => PositionOf(input, ranked[i].id) < PositionOf(input, ranked[j].id)

\* The two inputs are the same list but for the inputs of the candidate c.
DifferOnlyIn(input1, input2, c) ==
  /\ Len(input1) = Len(input2)
  /\ \A i \in DOMAIN input1 : input1[i].id # c => input1[i] = input2[i]

\* Two rankings of lists that differ in one candidate agree on every other pair.
OthersKeepOrder(ranked1, input1, ranked2, input2) ==
  \A c \in {input1[i].id : i \in DOMAIN input1} :
     DifferOnlyIn(input1, input2, c)
        => \A a, b \in {input1[i].id : i \in DOMAIN input1} \ {c} :
              SameOrder(ranked1, ranked2, a, b)

-----------------------------------------------------------------------------
(* Selection: properties.                                                  *)

\* The ids of the candidates of a list.
IdsOf(list) == {list[i].id : i \in DOMAIN list}

\* The driver list of session s has just been rendered afresh.
MountsDriverSuggestions(s) ==
  driverSuggestions[s] = Unmounted /\ driverSuggestions'[s] # Unmounted

\* The vehicle list of session s has just been rendered afresh.
MountsVehicleSuggestions(s) ==
  vehicleSuggestions[s] = Unmounted /\ vehicleSuggestions'[s] # Unmounted

\* C16: a driver (vehicle) list starts with the recommended candidate selected;
\* while it is shown the operator may select any other candidate; a step that
\* sets the confirmed driver (vehicle) sets it to the candidate selected in the
\* list at that moment; and the trip confirmed carries the confirmed driver and
\* vehicle.
C16_RecommendationIsOnlyDefault ==
  [][\A s \in Sessions :
        /\ MountsDriverSuggestions(s)
              => driverSuggestions'[s].selectedDriverId
                    = planning'[s].suggestions.recommendedDriverId
        /\ MountsVehicleSuggestions(s)
              => vehicleSuggestions'[s].selectedVehicleId
                    = planning'[s].suggestions.recommendedVehicleId
        /\ driverSuggestions[s] # Unmounted
              => \A id \in IdsOf(planning[s].suggestions.drivers)
                            \ {driverSuggestions[s].selectedDriverId} :
                    ENABLED SelectDriver(s, id)
        /\ vehicleSuggestions[s] # Unmounted
              => \A id \in IdsOf(planning[s].suggestions.vehicles)
                            \ {vehicleSuggestions[s].selectedVehicleId} :
                    ENABLED SelectVehicle(s, id)
        /\ (/\ tripSuggestions[s] # Unmounted
            /\ tripSuggestions'[s] # Unmounted
            /\ tripSuggestions'[s].selectedDriver # Null
            /\ tripSuggestions'[s].selectedDriver # tripSuggestions[s].selectedDriver)
              => /\ driverSuggestions[s] # Unmounted
                 /\ tripSuggestions'[s].selectedDriver.id
                       = driverSuggestions[s].selectedDriverId
                 /\ \E i \in DOMAIN planning[s].suggestions.drivers :
                       planning[s].suggestions.drivers[i]
                          = tripSuggestions'[s].selectedDriver
        /\ (/\ tripSuggestions[s] # Unmounted
            /\ tripSuggestions'[s] # Unmounted
            /\ tripSuggestions'[s].selectedVehicle # Null
            /\ tripSuggestions'[s].selectedVehicle # tripSuggestions[s].selectedVehicle)
              => /\ vehicleSuggestions[s] # Unmounted
                 /\ tripSuggestions'[s].selectedVehicle.id
                       = vehicleSuggestions[s].selectedVehicleId
                 /\ \E i \in DOMAIN planning[s].suggestions.vehicles :
                       planning[s].suggestions.vehicles[i]
                          = tripSuggestions'[s].selectedVehicle
        /\ (planning[s] # Unmounted /\ planning'[s] # Unmounted /\ ConfirmsPlan(s))
              => /\ planning'[s].confirmedTrip.driver = tripSuggestions[s].selectedDriver
                 /\ planning'[s].confirmedTrip.vehicle = tripSuggestions[s].selectedVehicle
    ]_vars

\* C16 witness: a trip stands confirmed with the lowest-ranked driver and the
\* lowest-ranked vehicle, neither of them the recommended one.
C16_Witness ==
  /\ planning["A"] # Unmounted
  /\ planning["A"].currentPhase = "summary"
  /\ planning["A"].confirmedTrip # Null
  /\ planning["A"].suggestions # Null
  /\ planning["A"].confirmedTrip.driver = scoredDrivers[Len(scoredDrivers)]
  /\ planning["A"].confirmedTrip.vehicle = scoredVehicles[Len(scoredVehicles)]
  /\ planning["A"].confirmedTrip.driver.id # planning["A"].suggestions.recommendedDriverId
  /\ planning["A"].confirmedTrip.vehicle.id # planning["A"].suggestions.recommendedVehicleId

-----------------------------------------------------------------------------
(* The fuel-cost helper.                                                   *)


\* The longest distance text drawn, in characters.
MaxDistanceLen == 6

\* !v: undefined, null, false, 0, NaN and the empty string are falsy.
Not(v) ==
  v \in {JsUndefined, Null, JsBoolean(FALSE), NaN, JsNumber(0), JsString(<< >>)}

\* text.replace(pattern, ''): the text without the first occurrence of pattern.
replace(text, pattern) ==
  LET hits == {i \in 1..(Len(text) - Len(pattern) + 1) :
                  SubSeq(text, i, i + Len(pattern) - 1) = pattern}
  IN  IF hits = {} THEN text
      ELSE LET first == CHOOSE i \in hits : \A j \in hits : i <= j
           IN  SubSeq(text, 1, first - 1)
                  \o SubSeq(text, first + Len(pattern), Len(text))

DecimalDigits == << "0", "1", "2", "3", "4", "5", "6", "7", "8", "9" >>

IsDigit(c) == \E d \in DOMAIN DecimalDigits : DecimalDigits[d] = c

DigitValue(c) == (CHOOSE d \in DOMAIN DecimalDigits : DecimalDigits[d] = c) - 1

\* The number a run of decimal digits denotes.
RECURSIVE DigitsValue(_)
DigitsValue(digits) ==
  IF digits = << >> THEN 0
  ELSE 10 * DigitsValue(SubSeq(digits, 1, Len(digits) - 1))
          + DigitValue(digits[Len(digits)])

\* parseFloat of a text of digits, blanks, minus signs and letters other than
\* those of Infinity: leading white space is skipped, then comes an optional
\* sign, the longest run of digits that follows is the number, and without one
\* the result is NaN.
parseFloatPrefix(text) ==
  LET first  == CHOOSE i \in 1..(Len(text) + 1) :
                   /\ \A j \in 1..(i - 1) : text[j] = " "
                   /\ i <= Len(text) => text[i] # " "
      signed == first <= Len(text) /\ text[first] = "-"
      start  == IF signed THEN first + 1 ELSE first
      finish == CHOOSE i \in (start - 1)..Len(text) :
                   /\ \A j \in start..i : IsDigit(text[j])
                   /\ i < Len(text) => ~IsDigit(text[i + 1])
      digits == DigitsValue(SubSeq(text, start, finish))
  IN  IF finish < start THEN NaN
      ELSE JsNumber(IF signed THEN 0 - digits ELSE digits)

isNaN(v) == v = NaN

\* The decimal numeral of a natural number.
RECURSIVE NumeralOf(_)
NumeralOf(n) ==
  IF n < 10 THEN << DecimalDigits[n + 1] >>
  ELSE NumeralOf(n \div 10) \o << DecimalDigits[(n % 10) + 1] >>

\* A Number is an IEEE 754 binary64 value. A finite one is kept as its binary
\* digits and the exponent of the last of them: BitsValue(bits) * 2^exp, negated
\* when `negative`. Zero has no digits; every other value has SignificandBits
\* digits, the first of them 1.
SignificandBits == 53

Double(negative, bits, exp) == [negative |-> negative, bits |-> bits, exp |-> exp]

\* The number of binary digits of a natural number, 0 for 0.
BitLength(n) == CHOOSE k \in 0..31 : n < 2^k /\ (k > 0 => n >= 2^(k - 1))

\* The binary numeral of a natural number, empty for 0.
BitsOf(n) == [i \in 1..BitLength(n) |-> (n \div 2^(BitLength(n) - i)) % 2]

\* The natural number a binary numeral denotes, taken half by half.
RECURSIVE BitsValue(_)
BitsValue(bits) ==
  IF bits = << >> THEN 0
  ELSE IF Len(bits) = 1 THEN bits[1]
  ELSE BitsValue(SubSeq(bits, 1, Len(bits) \div 2)) * 2^(Len(bits) - Len(bits) \div 2)
          + BitsValue(SubSeq(bits, Len(bits) \div 2 + 1, Len(bits)))

\* The binary numeral of bits + 1: the digits after the last 0 turn 0 and that
\* 0 turns 1; a numeral of ones only becomes 1 followed by zeros.
Successor(bits) ==
  IF \A i \in DOMAIN bits : bits[i] = 1
  THEN << 1 >> \o [i \in DOMAIN bits |-> 0]
  ELSE LET last == CHOOSE i \in DOMAIN bits :
                      bits[i] = 0 /\ \A j \in (i + 1)..Len(bits) : bits[j] = 1
       IN  [i \in DOMAIN bits |-> IF i < last THEN bits[i] ELSE IF i = last THEN 1 ELSE 0]

\* Products and quotients are taken limb by limb: the significand and one bit
\* more, in three limbs of LimbBits binary digits.
LimbBits == (SignificandBits + 1) \div 3

\* The number the k-th limb of a binary numeral denotes, counted from its end.
Limb(bits, k) ==
  BitsValue(SubSeq(bits, Max(1, Len(bits) - LimbBits * (k + 1) + 1),
                         Len(bits) - LimbBits * k))

\* The last `width` binary digits of a natural number.
LastBits(n, width) == [i \in 1..width |-> (n \div 2^(width - i)) % 2]

\* The binary numeral of bits * n, for a significand (three limbs, the first
\* one not 0) and a natural number n from 1 to 2^12: each limb times n, plus what
\* the limb after it carried over.
TimesSmall(bits, n) ==
  LET low    == Limb(bits, 0) * n
      middle == Limb(bits, 1) * n + low \div 2^LimbBits
      high   == Limb(bits, 2) * n + middle \div 2^LimbBits
  IN  BitsOf(high) \o LastBits(middle, LimbBits) \o LastBits(low, LimbBits)

\* The first three limbs of binary digits of r / den after the binary point, for
\* r < den < 2^13, and what remains to be divided: long division, a limb at a time.
QuotientBits(r, den) ==
  LET first  == r * 2^LimbBits
      second == (first % den) * 2^LimbBits
      third  == (second % den) * 2^LimbBits
  IN  [bits |-> LastBits(first \div den, LimbBits)
                   \o LastBits(second \div den, LimbBits)
                   \o LastBits(third \div den, LimbBits),
       rest |-> third % den]

\* The binary64 value nearest to bits * 2^exp (plus something below the last
\* digit when `sticky`), the one with an even significand when two are equally
\* near: the rounding of every arithmetic operation. bits starts with 1.
RoundToDouble(negative, bits, exp, sticky) ==
  IF Len(bits) <= SignificandBits
  THEN Double(negative,
              bits \o [i \in 1..(SignificandBits - Len(bits)) |-> 0],
              exp - (SignificandBits - Len(bits)))
  ELSE LET kept    == SubSeq(bits, 1, SignificandBits)
           cut     == SubSeq(bits, SignificandBits + 1, Len(bits))
           above   == sticky \/ \E i \in 2..Len(cut) : cut[i] = 1
           up      == cut[1] = 1 /\ (above \/ kept[SignificandBits] = 1)
           rounded == IF up THEN Successor(kept) ELSE kept
       IN  IF Len(rounded) > SignificandBits
           THEN Double(negative, SubSeq(rounded, 1, SignificandBits), exp + Len(cut) + 1)
           ELSE Double(negative, rounded, exp + Len(cut))

\* x / 2, which is exact.
Halved(x) == Double(x.negative, x.bits, x.exp - 1)

\* n / den for integers n >= 0 and 0 < den < 2^13: the digits of the whole
\* part, three limbs of digits after the binary point (more than a significand
\* holds) and whether anything follows them, rounded. A quotient below 1 is
\* half the quotient of 2n and den.
RECURSIVE QuotientOf(_, _, _)
QuotientOf(negative, n, den) ==
  IF n = 0 THEN Double(negative, << >>, 0)
  ELSE IF n < den THEN Halved(QuotientOf(negative, 2 * n, den))
  ELSE RoundToDouble(negative,
                     BitsOf(n \div den) \o QuotientBits(n % den, den).bits,
                     0 - 3 * LimbBits,
                     QuotientBits(n % den, den).rest # 0)

\* a / b for two integers, b not 0.
Divide(a, b) == QuotientOf((a < 0) # (b < 0), Abs(a), Abs(b))

\* A binary numeral that starts with 1, without its trailing zeros.
WithoutTrailingZeros(bits) ==
  SubSeq(bits, 1, CHOOSE i \in DOMAIN bits :
                     bits[i] = 1 /\ \A j \in (i + 1)..Len(bits) : bits[j] = 0)

\* x * y for a factor y of few significant digits (0.5 has one, 83.5 has eight):
\* the exact product, rounded.
Times(x, y) ==
  IF x.bits = << >> \/ y.bits = << >>
  THEN Double(x.negative # y.negative, << >>, 0)
  ELSE LET factor == WithoutTrailingZeros(y.bits)
       IN  RoundToDouble(x.negative # y.negative,
                         TimesSmall(x.bits, BitsValue(factor)),
                         x.exp + y.exp + (Len(y.bits) - Len(factor)), FALSE)

RECURSIVE PowerOfTen(_)
PowerOfTen(k) == IF k = 0 THEN 1 ELSE 10 * PowerOfTen(k - 1)

\* The decimal numeral of n with at least `width` digits.
RECURSIVE PaddedNumeral(_, _)
PaddedNumeral(n, width) ==
  IF Len(NumeralOf(n)) >= width THEN NumeralOf(n)
  ELSE << "0" >> \o PaddedNumeral(n, width - 1)

\* x.toFixed(fractionDigits): the integer n for which n / 10^fractionDigits is
\* nearest to the value x holds, the larger n when two are equally near, written
\* with a decimal point before its last fractionDigits digits. x * 10^fractionDigits
\* is taken exactly: n is its whole part, plus 1 when its first binary digit
\* after the point is 1.
toFixed(x, fractionDigits) ==
  LET scaled == IF x.bits = << >> THEN << >>
                ELSE TimesSmall(x.bits, PowerOfTen(fractionDigits))
      point  == Len(scaled) + x.exp
      whole  == IF x.exp >= 0 THEN scaled \o [i \in 1..x.exp |-> 0]
                ELSE SubSeq(scaled, 1, point)
      half   == IF x.exp < 0 /\ point >= 0 /\ point < Len(scaled)
                THEN scaled[point + 1] ELSE 0
      n      == BitsValue(whole) + half
      digits == PaddedNumeral(n, fractionDigits + 1)
  IN  (IF x.negative /\ x.bits # << >> THEN << "-" >> ELSE << >>)
         \o SubSeq(digits, 1, Len(digits) - fractionDigits)
         \o << "." >>
         \o SubSeq(digits, Len(digits) - fractionDigits + 1, Len(digits))

\* const USD_TO_INR_RATE = 83.5.
USD_TO_INR_RATE == Divide(835, 10)

\* The literal 0.5, the price of a kilometre's fuel in USD.
Half == Divide(5, 10)

\* A variant of calculateFuelCost that leaves the cost in USD.
calculateFuelCostUSD(fuelEfficiency, distance) ==
  IF Not(fuelEfficiency) \/ Not(distance) THEN JsString(<< "N", "/", "A" >>)
  ELSE IF ~IsString(distance) THEN Throws("TypeError")
  ELSE LET distanceKm == parseFloatPrefix(replace(distance.chars, << " ", "k", "m" >>))
       IN  IF isNaN(distanceKm) THEN JsString(<< "N", "/", "A" >>)
           ELSE LET costUSD == Times(Divide(distanceKm.number, fuelEfficiency.number), Half)
                IN  JsString(<< "₹" >> \o toFixed(costUSD, 2))

\* calculateFuelCost(fuelEfficiency, distance), fuelEfficiency a whole number when
\* it is a number: 'N/A' when either argument is falsy or the distance starts
\* with no number; a TypeError when the distance is truthy and not a string
\* (distance.replace is not a function); else the cost in rupees with two
\* decimals, computed in binary64 as the code computes it:
\* (distanceKm / fuelEfficiency) * 0.5, then * USD_TO_INR_RATE, then toFixed(2).
calculateFuelCost(fuelEfficiency, distance) ==
  IF Not(fuelEfficiency) \/ Not(distance) THEN JsString(<< "N", "/", "A" >>)
  ELSE IF ~IsString(distance) THEN Throws("TypeError")
  ELSE LET distanceKm == parseFloatPrefix(replace(distance.chars, << " ", "k", "m" >>))
       IN  IF isNaN(distanceKm) THEN JsString(<< "N", "/", "A" >>)
           ELSE LET costUSD == Times(Divide(distanceKm.number, fuelEfficiency.number), Half)
                    costINR == Times(costUSD, USD_TO_INR_RATE)
                IN  JsString(<< "₹" >> \o toFixed(costINR, 2))

\* The characters distance texts are drawn from.
DistanceChars == {"0", "1", " ", "k", "m"}

\* The texts drawn: every text of at most MaxDistanceLen characters.
DistanceTexts == UNION {[1..n -> DistanceChars] : n \in 0..MaxDistanceLen}

\* The arguments drawn. fuelEfficiency: missing, 0, that of a vehicle of the
\* pool, or 10. distance: missing, null, a text, or a value that is not a text
\* (the number 350, true).
FuelCostInputs ==
  [fuelEfficiency : {JsUndefined} \cup
                       {JsNumber(n) : n \in {0, 10} \cup
                           {mockVehicles[i].fuelEfficiency : i \in DOMAIN mockVehicles}},
   distance : {JsUndefined, Null, JsNumber(350), JsBoolean(TRUE)}
                 \cup {JsString(text) : text \in DistanceTexts}]

InitFuelCost == AppInit /\ scoreArgs \in FuelCostInputs /\ scoreOut = << >>

\* One call of calculateFuelCost on the arguments drawn; scoreOut takes what the
\* call returned or threw.
InvokeFuelCost ==
  /\ scoreOut = << >>
  /\ scoreOut' = << calculateFuelCost(scoreArgs.fuelEfficiency, scoreArgs.distance) >>
  /\ UNCHANGED << appVars, scoreArgs >>

NextFuelCost == InvokeFuelCost

SpecFuelCost == InitFuelCost /\ [][NextFuelCost]_vars

-----------------------------------------------------------------------------
(* The fuel-cost helper: properties.                                       *)

\* The text is a run of digits followed by " km".
IsKilometres(text) ==
  /\ Len(text) >= 4
  /\ SubSeq(text, Len(text) - 2, Len(text)) = << " ", "k", "m" >>
  /\ \A i \in 1..(Len(text) - 3) : IsDigit(text[i])

\* The result is the rupee sign and an amount with two decimals.
IsRupeeAmount(result) ==
  /\ Len(result) >= 5
  /\ result[1] = "₹"
  /\ result[Len(result) - 2] = "."
  /\ \A i \in 2..Len(result) : i # Len(result) - 2 => IsDigit(result[i])
  /\ Len(result) > 5 => result[2] # "0"

\* The amount of such a result, in hundredths.
HundredthsOf(result) ==
  100 * DigitsValue(SubSeq(result, 2, Len(result) - 3))
     + DigitsValue(SubSeq(result, Len(result) - 1, Len(result)))

\* n hundredths is (d / fuelEfficiency) x 0.5 x 83.5 rounded to two decimals:
\* no hundredth is nearer to d x 41.75 / fuelEfficiency. When that amount lies
\* midway between two hundredths, either of them is.
IsRoundedCost(n, d, fuelEfficiency) ==
  2 * Abs(n * fuelEfficiency - d * 4175) <= fuelEfficiency

\* The call of the example: fuelEfficiency 10 and "100 km".
ExampleFuelCost ==
  calculateFuelCost(JsNumber(10), JsString(<< "1", "0", "0", " ", "k", "m" >>))

\* C17: a call with a positive fuelEfficiency and a distance "<d> km" returns the
\* rupee sign and (d / fuelEfficiency) x 0.5 x 83.5 rounded to two decimals;
\* fuelEfficiency 10 and "100 km" give 417.50.
C17_FuelCostIsReferenceFormula ==
  /\ \A n \in DOMAIN scoreOut :
        (/\ IsNumber(scoreArgs.fuelEfficiency)
         /\ scoreArgs.fuelEfficiency.number > 0
         /\ IsString(scoreArgs.distance)
         /\ IsKilometres(scoreArgs.distance.chars))
           => /\ IsString(scoreOut[n])
              /\ IsRupeeAmount(scoreOut[n].chars)
              /\ IsRoundedCost(
                   HundredthsOf(scoreOut[n].chars),
                   DigitsValue(SubSeq(scoreArgs.distance.chars, 1,
                                      Len(scoreArgs.distance.chars) - 3)),
                   scoreArgs.fuelEfficiency.number)
  /\ ExampleFuelCost = JsString(<< "₹", "4", "1", "7", ".", "5", "0" >>)

\* C17 witness: fuelEfficiency 10 and "1 km", an amount of 4.175 that lies midway
\* between two hundredths, gave 4.17.
C17_Witness ==
  /\ scoreArgs.fuelEfficiency = JsNumber(10)
  /\ scoreArgs.distance = JsString(<< "1", " ", "k", "m" >>)
  /\ scoreOut = << JsString(<< "₹", "4", ".", "1", "7" >>) >>

\* No number starts the text once its first " km" is removed and leading blanks
\* are skipped.
IsUnparseable(text) ==
  LET rest == replace(text, << " ", "k", "m" >>)
  IN  ~\E i \in DOMAIN rest :
         IsDigit(rest[i]) /\ \A j \in 1..(i - 1) : rest[j] = " "

\* C18: every call returns 'N/A' or a rupee amount and none ends in a fault, and
\* a call without a fuelEfficiency, without a distance, or with a distance that
\* does not parse as a number returns 'N/A'.
C18_UnavailableIsSentinel ==
  \A n \in DOMAIN scoreOut :
     /\ ~HasThrown(scoreOut[n])
     /\ \/ scoreOut[n] = JsString(<< "N", "/", "A" >>)
        \/ IsRupeeAmount(scoreOut[n].chars)
     /\ (\/ scoreArgs.fuelEfficiency = JsUndefined
         \/ scoreArgs.distance \in {JsUndefined, Null, JsString(<< >>)}
         \/ scoreArgs.distance = JsBoolean(TRUE)
         \/ /\ IsString(scoreArgs.distance)
            /\ IsUnparseable(scoreArgs.distance.chars))
           => scoreOut[n] = JsString(<< "N", "/", "A" >>)

-----------------------------------------------------------------------------
(* The settings panel.                                                     *)

\* The most rows the fuel price list is given.
MaxFuelPrices == 2

\* Date.now() lies far above the id 1 of the initial fuel price row.
DateNowOrigin == 1000

DateNow == DateNowOrigin + clock

\* What the operator chooses or types in the panel.
DefaultRoutePreferences == {"fastest", "cheapest", "avoid-tolls"}
MaxDrivingHoursTexts == { << "8" >>, << "-", "1" >>, << >> }
FuelPriceStates == {"Mumbai"}
FuelPriceTexts == { << "1", "0", "0" >> }

\* The number a number input's value (a numeral or the empty string) converts to
\* in a comparison.
ToNumber(v) ==
  IF ~IsString(v) THEN v
  ELSE IF v.chars = << >> THEN JsNumber(0)
  ELSE parseFloatPrefix(v.chars)

\* parseFloat(maxDrivingHours)
parseHours(v) == IF IsString(v) THEN parseFloatPrefix(v.chars) ELSE v

\* parseFloat(item.price), in hundredths.
parsePrice(v) ==
  IF ~IsString(v) THEN v
  ELSE LET price == parseFloatPrefix(v.chars)
       IN  IF isNaN(price) THEN NaN ELSE JsNumber(100 * price.number)

\* A re-render after a handler that changed SettingsPanel state only.
RenderSettingsPanel(s, sp) ==
  /\ settingsPanel' = [settingsPanel EXCEPT ![s] = sp]
  /\ UNCHANGED << dashboard, planning, tripSuggestions, driverSuggestions,
                  vehicleSuggestions, tripsOverview >>

setDefaultRoutePreference(s, value) ==
  /\ settingsPanel[s] # Unmounted
  /\ value # settingsPanel[s].defaultRoutePreference
  /\ RenderSettingsPanel(s, [settingsPanel[s] EXCEPT !.defaultRoutePreference = value])
  /\ NoStoreRequest

setMaxDrivingHours(s, text) ==
  /\ settingsPanel[s] # Unmounted
  /\ JsString(text) # settingsPanel[s].maxDrivingHours
  /\ RenderSettingsPanel(s, [settingsPanel[s] EXCEPT !.maxDrivingHours = JsString(text)])
  /\ NoStoreRequest

setEnableAIRecommendations(s, checked) ==
  /\ settingsPanel[s] # Unmounted
  /\ checked # settingsPanel[s].enableAIRecommendations
  /\ RenderSettingsPanel(s, [settingsPanel[s] EXCEPT !.enableAIRecommendations = checked])
  /\ NoStoreRequest

\* Add Fuel Price: a row with id Date.now() and nothing filled in.
handleAddFuelPrice(s) ==
  /\ settingsPanel[s] # Unmounted
  /\ Len(settingsPanel[s].fuelPricesByState) < MaxFuelPrices
  /\ clock < MaxClock
  /\ RenderSettingsPanel(s,
       [settingsPanel[s] EXCEPT
          !.fuelPricesByState =
             Append(@, [id |-> DateNow, state |-> "", price |-> JsString(<< >>)])])
  /\ clock' = clock + 1
  /\ event' = NoEvent
  /\ UNCHANGED << store, docUser, userId, pendingWrite, scoreVars >>

\* handleUpdateFuelPrice(id, field, value)
handleUpdateFuelPrice(s, id, field, value) ==
  /\ settingsPanel[s] # Unmounted
  /\ \E i \in DOMAIN settingsPanel[s].fuelPricesByState :
        /\ settingsPanel[s].fuelPricesByState[i].id = id
        /\ settingsPanel[s].fuelPricesByState[i][field] # value
  /\ RenderSettingsPanel(s,
       [settingsPanel[s] EXCEPT
          !.fuelPricesByState =
             [i \in DOMAIN @ |-> IF @[i].id = id THEN [@[i] EXCEPT ![field] = value]
                                 ELSE @[i]]])
  /\ NoStoreRequest

\* handleRemoveFuelPrice(id)
handleRemoveFuelPrice(s, id) ==
  /\ settingsPanel[s] # Unmounted
  /\ \E i \in DOMAIN settingsPanel[s].fuelPricesByState :
        settingsPanel[s].fuelPricesByState[i].id = id
  /\ RenderSettingsPanel(s,
       [settingsPanel[s] EXCEPT
          !.fuelPricesByState = SelectSeq(@, LAMBDA item : item.id # id)])
  /\ NoStoreRequest

\* Dashboard's handleSaveSettings(settings) on Dashboard state d.
handleSaveSettings(d, settings) ==
  [d EXCEPT !.appSettings = settings,
            !.toast = Toast(Message("Settings saved successfully!", ""), "success"),
            !.currentView = "overview"]

\* item => !item.state || isNaN(parseFloat(item.price)) || parseFloat(item.price) <= 0
invalidFuelPrice(item) ==
  \/ item.state = ""
  \/ isNaN(parsePrice(item.price))
  \/ parsePrice(item.price).number <= 0

\* Save Settings: handleSave.
handleSave(s) ==
  LET sp == settingsPanel[s]
      newSettings ==
        [defaultRoutePreference |-> sp.defaultRoutePreference,
         maxDrivingHours |-> parseHours(sp.maxDrivingHours),
         fuelPricesByState |->
            [i \in DOMAIN sp.fuelPricesByState |->
               [sp.fuelPricesByState[i] EXCEPT !.price = parsePrice(@)]],
         enableAIRecommendations |-> sp.enableAIRecommendations]
  IN  /\ sp # Unmounted
      /\ IF ~isNaN(ToNumber(sp.maxDrivingHours)) /\ ToNumber(sp.maxDrivingHours).number < 0
         THEN RenderDashboard(s, [dashboard[s] EXCEPT
                 !.toast = onShowToast(Message("Max Driving Hours cannot be negative.", ""),
                                       "error")])
         ELSE IF \E i \in DOMAIN sp.fuelPricesByState :
                    invalidFuelPrice(sp.fuelPricesByState[i])
         THEN RenderDashboard(s, [dashboard[s] EXCEPT
                 !.toast = onShowToast(Message("Please ensure all fuel prices have a state and a valid positive price.", ""),
                                       "error")])
         ELSE RenderDashboard(s, handleSaveSettings(dashboard[s], newSettings))
      /\ NoStoreRequest

\* The ids a fuel price row can carry.
FuelPriceIds == {1} \cup {DateNowOrigin + t : t \in 0..MaxClock}

\* The administrator edits the settings and saves them.
EditSettings(s) ==
  \/ \E value \in DefaultRoutePreferences : setDefaultRoutePreference(s, value)
  \/ \E text \in MaxDrivingHoursTexts : setMaxDrivingHours(s, text)
  \/ \E checked \in BOOLEAN : setEnableAIRecommendations(s, checked)
  \/ handleAddFuelPrice(s)
  \/ \E id \in FuelPriceIds, value \in FuelPriceStates :
        handleUpdateFuelPrice(s, id, "state", value)
  \/ \E id \in FuelPriceIds, text \in FuelPriceTexts :
        handleUpdateFuelPrice(s, id, "price", JsString(text))
  \/ \E id \in FuelPriceIds : handleRemoveFuelPrice(s, id)
  \/ handleSave(s)

\* One tab whose operator becomes administrator, edits and saves settings, and
\* plans trips.
NextSettings ==
  \E s \in Planners :
     \/ SetRole(s, "admin") \/ ClickSettings(s)
     \/ EditSettings(s)
     \/ ClickPlanNewTrip(s)
     \/ FillIn(s, RoutineForms)
     \/ Submit(s)
     \/ handleBackToFormInternal(s)

SpecSettings == Init /\ [][NextSettings]_vars

\* One tab whose administrator edits and saves settings and moves between the
\* views and the roles.
NextAdmin ==
  \E s \in Planners :
     \/ SwitchRole(s) \/ EditSettings(s)
     \/ ClickPlanNewTrip(s)
     \/ ClickTripsOverview(s)
     \/ CloseToast(s)

SpecAdmin == Init /\ [][NextAdmin]_vars

\* The one user comes back to one trip of an earlier visit.
InitApi ==
  /\ Returning([s \in Sessions |-> "user1"],
               [i \in TripIds |-> IF i = 1 THEN "user1" ELSE Undefined])
  /\ scoreArgs = Null
  /\ scoreOut = << >>

\* One tab whose operator switches role and whose lifecycle handlers are called
\* directly as well as through the buttons, on a trip of an earlier visit.
NextApi ==
  \E s \in Planners :
     \/ SwitchRole(s)
     \/ Watch(s) \/ Fail(s) \/ Advance(s) \/ Remind(s)
     \/ Request(s)
     \/ \E ok \in BOOLEAN : updateTripStatusSettles(s, ok)

SpecApi == InitApi /\ [][NextApi]_vars

\* One tab whose operator switches role in the middle of the planning flow, and
\* as administrator saves the settings as they are; plans are dispatched, opened
\* again from the overview and dispatched again.
NextRoles ==
  \E s \in Planners :
     \/ SwitchRole(s)
     \/ handleSave(s)
     \/ Plan(s, RoutineForms, RoutineDeliveryStatuses) \/ Summary(s) \/ Leave(s)
     \/ Watch(s)
     \/ \E ok \in BOOLEAN : saveTripToFirestoreSettles(s, ok)

SpecRoles == Init /\ [][NextRoles]_vars

-----------------------------------------------------------------------------
(* Settings: properties.                                                   *)

\* The ids of a list, in order.
IdsInOrder(list) == [i \in DOMAIN list |-> list[i].id]

\* C19: whatever the settings of a session are, the suggestions of its planning
\* request carry the driver scores, vehicle scores, rankings and recommended picks
\* of the built-in candidates, which no setting enters: driver1 74.00, driver3
\* 67.67, driver2 47.00; vehicle1 100.00, vehicle3 85.00, vehicle2 75.00.
C19_SettingsDoNotInfluenceScoring ==
  \A s \in Sessions :
     (planning[s] # Unmounted /\ planning[s].suggestions # Null)
        => LET suggestions == planning[s].suggestions
           IN  /\ suggestions.drivers = scoredDrivers
               /\ suggestions.vehicles = scoredVehicles
               /\ IdsInOrder(suggestions.drivers) = << "driver1", "driver3", "driver2" >>
               /\ [i \in 1..3 |-> suggestions.drivers[i].driverScore]
                     = << 7400, 6767, 4700 >>
               /\ IdsInOrder(suggestions.vehicles)
                     = << "vehicle1", "vehicle3", "vehicle2" >>
               /\ [i \in 1..3 |-> suggestions.vehicles[i].vehicleScore]
                     = << 10000, 8500, 7500 >>
               /\ suggestions.recommendedDriverId = "driver1"
               /\ suggestions.recommendedVehicleId = "vehicle1"

\* C19 witness: a planning request answered under settings saved with another
\* route preference, 8 driving hours, another fuel price list and the
\* recommendations switched off.
C19_Witness ==
  /\ planning["A"] # Unmounted
  /\ planning["A"].suggestions # Null
  /\ dashboard["A"].appSettings.defaultRoutePreference = "cheapest"
  /\ dashboard["A"].appSettings.maxDrivingHours = JsNumber(8)
  /\ dashboard["A"].appSettings.enableAIRecommendations = FALSE
  /\ dashboard["A"].appSettings.fuelPricesByState
        = << [id |-> 1, state |-> "Mumbai", price |-> JsNumber(10000)] >>

-----------------------------------------------------------------------------
(* Tabs of several users.                                                  *)

\* Tab A is signed in as user1, who comes back to a trip of an earlier visit, and
\* tab B as user2, who has none.
InitUsers ==
  /\ Returning([s \in Sessions |-> IF s \in Planners THEN "user1" ELSE "user2"],
               [i \in TripIds |-> IF i = 1 THEN "user1" ELSE Undefined])
  /\ scoreArgs = Null
  /\ scoreOut = << >>

\* Planning with every recommendation accepted, up to the summary.
PlanAndConfirm(s) ==
  \/ FillIn(s, RoutineForms)
  \/ Submit(s)
  \/ \E id \in DriverIds : handleConfirmDriver(s, id)
  \/ \E id \in VehicleIds : handleConfirmVehicle(s, id)
  \/ \E ds \in RoutineDeliveryStatuses, delay \in DeliveryDelays :
        handleFinalConfirmTrip(s, ds, delay)

\* The planning form after the operator has typed a routine request into it,
\* field by field (setFormField): Plan Trip can be pressed.
FilledForm ==
  LET form == CHOOSE f \in RoutineForms : TRUE
  IN  [k \in DOMAIN PlanningInit(Null) |->
         IF k \in DOMAIN form THEN form[k] ELSE PlanningInit(Null)[k]]

\* The one user's tabs on a store that holds no trip yet, the planning form of
\* each filled in.
InitViewer ==
  /\ userId = [s \in Sessions |-> "user1"]
  /\ docUser = [i \in TripIds |-> Undefined]
  /\ store = [i \in TripIds |-> Null]
  /\ clock = 0
  /\ dashboard = [s \in Sessions |-> DashboardInit]
  /\ planning = [s \in Sessions |-> FilledForm]
  /\ tripSuggestions = [s \in Sessions |-> Unmounted]
  /\ driverSuggestions = [s \in Sessions |-> Unmounted]
  /\ vehicleSuggestions = [s \in Sessions |-> Unmounted]
  /\ tripsOverview = [s \in Sessions |-> Unmounted]
  /\ settingsPanel = [s \in Sessions |-> Unmounted]
  /\ pendingWrite = [s \in Sessions |-> << >>]
  /\ event = NoEvent
  /\ scoreArgs = Null
  /\ scoreOut = << >>

\* One tab whose operator switches role at any time, in the planning flow and on
\* the overview: the filled form is submitted, the plan confirmed, edited and
\* dispatched, trips are opened again from the overview and dispatched again,
\* the buttons of the rows are pressed, and the three lifecycle handlers and the
\* reminder handler are called on the listed trips under every role, whatever
\* buttons are rendered, while writes settle and snapshots arrive or fail.
NextViewer ==
  \E s \in Planners :
     \/ SwitchRole(s)
     \/ Submit(s)
     \/ \E id \in DriverIds : handleConfirmDriver(s, id)
     \/ ChangeDriver(s)
     \/ \E id \in VehicleIds : handleConfirmVehicle(s, id)
     \/ ChangeVehicle(s)
     \/ \E ds \in RoutineDeliveryStatuses, delay \in DeliveryDelays :
           handleFinalConfirmTrip(s, ds, delay)
     \/ handleBackToFormInternal(s)
     \/ Summary(s) \/ Leave(s)
     \/ Watch(s) \/ Fail(s) \/ Settle(s)
     \/ Advance(s) \/ Remind(s)
     \/ Request(s) \/ RequestReminder(s)

SpecViewer == InitViewer /\ [][NextViewer]_vars

\* Two tabs of two users, each following its overview: user1 advances the trip of
\* the earlier visit, user2 plans a trip and dispatches it, and in the first tab
\* the sign-in state changes: to no user, to user2, back to user1.
NextUsers ==
  \/ \E s \in Planners, user \in Users \cup {NoUser} : onAuthStateChanged(s, user)
  \/ \E s \in Sessions : ClickTripsOverview(s) \/ OnSnapshot(s) \/ Settle(s)
  \/ \E s \in Planners : Advance(s)
  \/ \E s \in Sessions \ Planners : PlanAndConfirm(s) \/ handleDispatchNow(s)

SpecUsers == InitUsers /\ [][NextUsers]_vars

-----------------------------------------------------------------------------
(* Ownership: properties.                                                  *)

\* The trips of session s's list that lie under the path of another user than
\* the one the session is signed in as.
ForeignTripsListed(s) ==
  IF tripsOverview[s] = Unmounted THEN {}
  ELSE {i \in DOMAIN tripsOverview[s].trips :
          docUser[tripsOverview[s].trips[i].id] # userId[s]}

\* No session lists a trip that lies under the path of another user than the one
\* it is signed in as.
ListsOnlyOwnTrips == \A s \in Sessions : ForeignTripsListed(s) = {}

\* A step changes no trip unless it settles a write of a session that was, when
\* it issued the write, signed in as the user in the trip's path; a trip created
\* lies under the path of that user; and no trip moves to another path.
WritesOnlyOwnTrips ==
  \A id \in TripIds :
     /\ store'[id] # store[id]
           => /\ event'.op \in {"saveTripToFirestore", "updateTripStatus"}
              /\ event'.tripId = id
              /\ docUser'[id] = Head(pendingWrite[event'.session]).userId
     /\ docUser[id] # Undefined => docUser'[id] = docUser[id]

\* C20: after every step each session lists only trips under the path of the
\* user it is signed in as, and every step writes only trips of the user the
\* writing session was signed in as.
C20_TripsScopedToIdentity ==
  [][ListsOnlyOwnTrips' /\ WritesOnlyOwnTrips]_vars

-----------------------------------------------------------------------------
(* The overview's rows: properties.                                        *)

\* The row of trip id in session s renders a button whose handler asks for
\* newStatus: In Progress (handleMarkInProgress), Complete (handleMarkCompleted),
\* Cancel (handleCancelTrip).
OffersTransition(s, id, newStatus) ==
  \/ newStatus = "In Progress" /\ ShowsScheduledButtons(s, id)
  \/ newStatus = "Completed" /\ ShowsInProgressButtons(s, id)
  \/ newStatus = "Cancelled" /\ (ShowsScheduledButtons(s, id) \/ ShowsInProgressButtons(s, id))

\* The statuses the buttons of the row of trip id ask for.
OfferedTransitions(s, id) ==
  {newStatus \in RequestedStatuses : OffersTransition(s, id, newStatus)}

\* C21: in the overview, the status-change buttons of a trip's row are exactly the
\* edges of the transition table that leave the status the row displays when the
\* role is dispatcher or admin (Scheduled: In Progress and Cancel; In Progress:
\* Complete and Cancel; Completed, Cancelled: none), and none when the role is
\* viewer.
C21_OfferedActionsAreTableEdges ==
  \A s \in Sessions, id \in TripIds :
     ListsTrip(s, id) =>
        OfferedTransitions(s, id) =
           IF dashboard[s].role \in ModifyRoles
           THEN {newStatus \in RequestedStatuses :
                   << TripById(tripsOverview[s].trips, id).status, newStatus >>
                      \in TransitionTable}
           ELSE {}

\* C21 witness: one overview lists an In Progress trip with Complete and Cancel
\* offered and a Completed trip with nothing offered.
C21_Witness ==
  \E s \in Sessions, i, j \in TripIds :
     /\ ListsTrip(s, i) /\ ListsTrip(s, j)
     /\ TripById(tripsOverview[s].trips, i).status = "In Progress"
     /\ OfferedTransitions(s, i) = {"Completed", "Cancelled"}
     /\ TripById(tripsOverview[s].trips, j).status = "Completed"
     /\ OfferedTransitions(s, j) = {}

-----------------------------------------------------------------------------
(* The read-only role: properties.                                         *)

\* C22: no step taken in a session whose role is viewer (submitting the form,
\* confirming, dispatching, a status-change request, a reminder) puts a write in
\* flight, also when the role became viewer in the middle of a planning flow
\* started as dispatcher or admin; and a trip record is created or changed only
\* when a write in flight settles.
C22_ViewerWritesNothing ==
  [][/\ \A s \in Sessions :
          dashboard[s].role = "viewer" =>
             \/ pendingWrite'[s] = pendingWrite[s]
             \/ pendingWrite[s] # << >> /\ pendingWrite'[s] = Tail(pendingWrite[s])
     /\ store' # store =>
          \E s \in Sessions :
             /\ pendingWrite[s] # << >>
             /\ pendingWrite' = [pendingWrite EXCEPT ![s] = Tail(@)]
             /\ event'.session = s
             /\ event'.tripId = Head(pendingWrite[s]).tripId]_vars

\* C22 witness: a viewer has asked for a trip of the list, stored as Scheduled,
\* to be put In Progress; the request was denied at the role check, although
\* the clock and the writes in flight would have allowed it, and nothing of the
\* session is in flight.
C22_Witness ==
  \E s \in Sessions :
     /\ dashboard[s].role = "viewer"
     /\ event.op = "updateTripStatus"
     /\ event.outcome = "denied"
     /\ event.session = s /\ event.role = "viewer"
     /\ event.newStatus = "In Progress"
     /\ ListsTrip(s, event.tripId)
     /\ store[event.tripId] # Null /\ store[event.tripId].status = "Scheduled"
     /\ pendingWrite[s] = << >>
     /\ clock < MaxClock /\ InFlight < MaxPending

-----------------------------------------------------------------------------
(* The overview's list: properties.                                        *)

\* The status a status filter stands for.
StatusOfFilter(filter) ==
  CASE filter = "scheduled" -> "Scheduled"
    [] filter = "in progress" -> "In Progress"
    [] filter = "completed" -> "Completed"
    [] filter = "cancelled" -> "Cancelled"

\* The four status filters.
StatusFilters == Filters \ {"all"}

\* The ids of the loaded trips that belong under a filter.
IdsUnder(trips, filter) ==
  {trips[i].id : i \in {k \in DOMAIN trips :
                          filter = "all" \/ trips[k].status = StatusOfFilter(filter)}}

\* A list shows each of the trips of ids once, newest first.
ShowsNewestFirst(list, ids) ==
  /\ {list[i].id : i \in DOMAIN list} = ids
  /\ Len(list) = Cardinality(ids)
  /\ \A i, j \in DOMAIN list : i < j => list[i].createdAt >= list[j].createdAt

\* C23: the rows of the overview are exactly the loaded trips whose status is the
\* one the selected filter stands for (every loaded trip under 'all'), each once
\* and as loaded, ordered by createdAt from newest to oldest; and every loaded trip
\* is shown under exactly one of the four status filters.
C23_ListIsFilteredAndNewestFirst ==
  \A s \in Sessions :
     ShowsTripsTable(s) =>
        LET ov == tripsOverview[s]
        IN  /\ ShowsNewestFirst(filteredTrips(ov), IdsUnder(ov.trips, ov.filter))
            /\ \A i \in DOMAIN filteredTrips(ov) :
                  filteredTrips(ov)[i] = TripById(ov.trips, filteredTrips(ov)[i].id)
            /\ \A k \in DOMAIN ov.trips :
                  Cardinality({f \in StatusFilters :
                                 \E i \in DOMAIN filteredTrips([ov EXCEPT !.filter = f]) :
                                    filteredTrips([ov EXCEPT !.filter = f])[i] = ov.trips[k]}) = 1

\* C23 witness: two trips are loaded, the older one Completed and the newer one
\* Scheduled; the Completed filter is selected and shows the older trip alone, and
\* the All filter would show the newer trip first, the reverse of the loaded order.
C23_Witness ==
  \E s \in Sessions :
     /\ ShowsTripsTable(s)
     /\ LET ov == tripsOverview[s]
        IN  /\ Len(ov.trips) = 2
            /\ ov.trips[1].status = "Completed" /\ ov.trips[2].status = "Scheduled"
            /\ ov.trips[1].createdAt < ov.trips[2].createdAt
            /\ ov.filter = "completed"
            /\ filteredTrips(ov) = << ov.trips[1] >>
            /\ filteredTrips([ov EXCEPT !.filter = "all"]) = << ov.trips[2], ov.trips[1] >>

-----------------------------------------------------------------------------
(* Delivery metrics: properties.                                           *)

\* C24: a confirmed plan, and every stored trip, has deliveryStatus on-time or
\* delayed; so the metrics of every loaded overview satisfy
\* onTime + delayed = completed, completed being the number of loaded trips whose
\* status is Completed.
C24_MetricsAddUp ==
  /\ \A s \in Sessions :
        (planning[s] # Unmounted /\ planning[s].confirmedTrip # Null)
           => Get(planning[s].confirmedTrip, "deliveryStatus") \in {"on-time", "delayed"}
  /\ \A id \in TripIds :
        store[id] # Null => Get(store[id], "deliveryStatus") \in {"on-time", "delayed"}
  /\ \A s \in Sessions :
        tripsOverview[s] # Unmounted =>
           LET metrics == calculateDeliveryMetrics(tripsOverview[s].trips)
           IN  /\ metrics.onTime + metrics.delayed = metrics.completed
               /\ metrics.completed =
                     Cardinality({i \in DOMAIN tripsOverview[s].trips :
                                    tripsOverview[s].trips[i].status = "Completed"})

\* C24 witness: an admin's overview shows the metrics of two Completed trips, one
\* on time and one delayed.
C24_Witness ==
  \E s \in Sessions :
     /\ ShowsTripsTable(s)
     /\ canViewAnalytics(dashboard[s].role)
     /\ calculateDeliveryMetrics(tripsOverview[s].trips) =
           [onTime |-> 1, delayed |-> 1, completed |-> 2]

-----------------------------------------------------------------------------
(* The dispatch notification: properties.                                  *)

\* C25: the notification 'Trip Dispatched successfully!' is shown by a dispatch
\* only if the dispatched trip was written to the store: when the write of a
\* dispatch has failed, the session does not show it.
C25_SuccessOnlyAfterWrite ==
  (event.op = "saveTripToFirestore" /\ event.outcome = "failed")
     => dashboard[event.session].toast #
           Toast(Message("Trip Dispatched successfully!", ""), "success")

-----------------------------------------------------------------------------
(* Access to the settings: properties.                                     *)

\* Dashboard renders the settings panel: the branch past planning and overview,
\* for an admin on the settings view.
ShowsSettingsPanel(d) ==
  d.currentView \notin {"planning", "overview"} /\ d.currentView = "settings" /\ d.role = "admin"

\* Dashboard renders the Access Denied fallback of that branch.
ShowsSettingsAccessDenied(d) ==
  d.currentView \notin {"planning", "overview"} /\ ~(d.currentView = "settings" /\ d.role = "admin")

\* C26: the current view is 'settings' only while the role is admin; the settings
\* panel is mounted only for an admin, and the Access Denied fallback of the
\* settings view is never rendered.
C26_SettingsViewOnlyForAdmin ==
  \A s \in Sessions :
     /\ dashboard[s].currentView = "settings" => dashboard[s].role = "admin"
     /\ settingsPanel[s] # Unmounted <=> ShowsSettingsPanel(dashboard[s])
     /\ settingsPanel[s] # Unmounted => dashboard[s].role = "admin"
     /\ ~ShowsSettingsAccessDenied(dashboard[s])

\* C26 witness: settings have been saved, and the role has since been changed to
\* one that is not admin; the view is the planning view.
C26_Witness ==
  \E s \in Sessions :
     /\ dashboard[s].appSettings # InitialAppSettings
     /\ dashboard[s].role \in {"dispatcher", "viewer"}
     /\ dashboard[s].currentView = "planning"
     /\ settingsPanel[s] = Unmounted

-----------------------------------------------------------------------------
(* The planning screens: properties.                                       *)

\* The planning screens TripPlanningFlow renders in session s.
PlanningScreens(s) ==
  {screen \in {"form", "suggestions", "summary"} :
     \/ screen = "form" /\ ShowsForm(dashboard[s].role, planning[s])
     \/ screen = "suggestions" /\ ShowsTripSuggestions(dashboard[s].role, planning[s])
     \/ screen = "summary" /\ ShowsSummary(dashboard[s].role, planning[s])}

\* C27: while the role is dispatcher or admin and the planning view is shown,
\* exactly one of the form, the suggestions and the summary is rendered; Edit on
\* the summary of a trip opened from the overview included.
C27_OnePlanningScreenShown ==
  \A s \in Sessions :
     (dashboard[s].role \in ModifyRoles /\ dashboard[s].currentView = "planning")
        => Cardinality(PlanningScreens(s)) = 1

-----------------------------------------------------------------------------
(* The fuel cost on the suggestions screen and on the summary: properties. *)

\* The characters of a route's distance text.
CharsOf(distance) ==
  CASE distance = "350 km" -> << "3", "5", "0", " ", "k", "m" >>
    [] distance = "380 km" -> << "3", "8", "0", " ", "k", "m" >>
    [] distance = "360 km" -> << "3", "6", "0", " ", "k", "m" >>

\* Est. Fuel Cost of a vehicle on the suggestions screen, on its card and in the
\* Selected Vehicle box: calculateFuelCost(vehicle.fuelEfficiency, optimalRoute.distance).
SuggestionsFuelCost(suggestions, vehicle) ==
  calculateFuelCost(JsNumber(vehicle.fuelEfficiency),
                    JsString(CharsOf(suggestions.optimalRoute.distance)))

\* Est. Fuel Cost on the trip summary:
\* calculateFuelCost(vehicle.fuelEfficiency, route.distance).
SummaryFuelCost(tripDetails) ==
  calculateFuelCost(JsNumber(tripDetails.vehicle.fuelEfficiency),
                    JsString(CharsOf(tripDetails.route.distance)))

\* C28: on the summary of a plan confirmed in this flow, the estimated fuel cost
\* of the confirmed vehicle is the one the suggestions screen showed for that
\* vehicle, whichever route was selected.
C28_FuelCostSameOnBothScreens ==
  \A s \in Sessions :
     (ShowsSummary(dashboard[s].role, planning[s]) /\ planning[s].suggestions # Null)
        => SummaryFuelCost(planning[s].confirmedTrip) =
              SuggestionsFuelCost(planning[s].suggestions, planning[s].confirmedTrip.vehicle)

-----------------------------------------------------------------------------
(* The order of confirmations: properties.                                 *)

\* The entries of a list.
EntriesOf(list) == {list[i] : i \in DOMAIN list}

\* Session s confirms a vehicle in this step.
ConfirmsVehicle(s) ==
  /\ tripSuggestions[s] # Unmounted /\ tripSuggestions'[s] # Unmounted
  /\ tripSuggestions[s].selectedVehicle = Null
  /\ tripSuggestions'[s].selectedVehicle # Null

\* C29: a vehicle is confirmed only while a driver is confirmed; a plan is
\* confirmed only while a driver and a vehicle are confirmed, and then carries
\* that driver and that vehicle, both entries of the scored lists of its planning
\* request; and a trip that a step dispatches carries the driver and the vehicle
\* of the confirmed plan.
C29_ConfirmationsInOrder ==
  [][\A s \in Sessions :
        /\ ConfirmsVehicle(s) =>
              /\ tripSuggestions[s].selectedDriver # Null
              /\ tripSuggestions'[s].selectedDriver = tripSuggestions[s].selectedDriver
              /\ tripSuggestions'[s].selectedVehicle \in EntriesOf(planning[s].suggestions.vehicles)
        /\ (planning[s] # Unmounted /\ planning'[s] # Unmounted /\ ConfirmsPlan(s)) =>
              /\ tripSuggestions[s].selectedDriver # Null
              /\ tripSuggestions[s].selectedVehicle # Null
              /\ planning'[s].confirmedTrip.driver = tripSuggestions[s].selectedDriver
              /\ planning'[s].confirmedTrip.vehicle = tripSuggestions[s].selectedVehicle
              /\ planning'[s].confirmedTrip.driver \in EntriesOf(planning[s].suggestions.drivers)
              /\ planning'[s].confirmedTrip.vehicle \in EntriesOf(planning[s].suggestions.vehicles)
        /\ (event'.op = "saveTripToFirestore" /\ event'.session = s
               /\ event'.outcome = "requested") =>
              /\ event'.tripData.driver = planning[s].confirmedTrip.driver
              /\ event'.tripData.vehicle = planning[s].confirmedTrip.vehicle
        /\ (event'.op = "saveTripToFirestore" /\ event'.session = s
               /\ event'.outcome = "written") =>
              /\ store'[event'.tripId].driver = event'.tripData.driver
              /\ store'[event'.tripId].vehicle = event'.tripData.vehicle
              /\ store'[event'.tripId].driver \in EntriesOf(scoredDrivers)
              /\ store'[event'.tripId].vehicle \in EntriesOf(scoredVehicles)]_vars

\* C29 witness: after a trip was dispatched, a session has pressed Change on the
\* driver with the vehicle still confirmed: no driver is confirmed, Confirm Trip
\* and Confirm Vehicle are unavailable, and confirming a driver is possible.
C29_Witness ==
  \E s \in Sessions :
     /\ tripSuggestions[s] # Unmounted
     /\ tripSuggestions[s].selectedDriver = Null
     /\ tripSuggestions[s].selectedVehicle # Null
     /\ \E id \in TripIds : store[id] # Null
     /\ ~ENABLED handleFinalConfirmTrip(s, "on-time", 1)
     /\ \A id \in VehicleIds : ~ENABLED handleConfirmVehicle(s, id)
     /\ \E id \in DriverIds : ENABLED handleConfirmDriver(s, id)

-----------------------------------------------------------------------------
(* The stored settings: properties.                                        *)

\* Settings whose maxDrivingHours is a number >= 0 and whose fuel prices each
\* have a state and a number > 0 as price.
ValidSettings(settings) ==
  /\ IsNumber(settings.maxDrivingHours)
  /\ settings.maxDrivingHours.number >= 0
  /\ \A i \in DOMAIN settings.fuelPricesByState :
        /\ settings.fuelPricesByState[i].state # ""
        /\ IsNumber(settings.fuelPricesByState[i].price)
        /\ settings.fuelPricesByState[i].price.number > 0

\* C30: the stored settings are valid after any sequence of Save Settings
\* attempts.
C30_StoredSettingsAreValid ==
  \A s \in Sessions : ValidSettings(dashboard[s].appSettings)

====
